---------------------------- MODULE Spec2Model ----------------------------
(***************************************************************************)
(* Turbulance pipeline of fullscreen-triangle/four-sided-triangle:          *)
(*   parser       src/src/turbulance/parser.rs                              *)
(*   compiler     src/src/turbulance/compiler.rs                            *)
(*   orchestrator src/src/turbulance/orchestrator.rs                        *)
(*                                                                          *)
(* Numbers of type f64 are kept as exact integers in thousandths:          *)
(* every resource figure the compiler can produce from its tables and its  *)
(* adjustment factors is an exact multiple of 1/1000.                       *)
(* A HashMap is a function on its key set, a HashSet is a set; wherever the *)
(* code iterates over one, the order is a nondeterministic choice.          *)
(***************************************************************************)
EXTENDS Integers, Sequences, FiniteSets, TLC

(***************************************************************************)
(* Bounds of the model.                                                     *)
(***************************************************************************)
\* longest script (number of pipeline_stage nodes) given to compile_protocol
MaxSteps == 3
\* how often compile_protocol is called on the same script by one compiler
MaxCompiles == 2
\* longest script text (number of lines) given to parse_script
MaxLines == 2
\* the longest expert_models array of a configuration
MaxModels == 4

(***************************************************************************)
(* Generic helpers.                                                         *)
(***************************************************************************)
Max2(a, b) == IF a >= b THEN a ELSE b

Range(s) == {s[i] : i \in 1..Len(s)}

\* all orders in which a HashSet / HashMap holding the elements S can be iterated
RECURSIVE Orders(_)
Orders(S) ==
    IF S = {} THEN {<<>>} ELSE UNION {{<<x>> \o o : o \in Orders(S \ {x})} : x \in S}

\* first position of x in s (0 when absent)
Pos(s, x) ==
    IF x \in Range(s) THEN CHOOSE i \in 1..Len(s) : s[i] = x /\ \A j \in 1..(i-1) : s[j] # x
    ELSE 0

RECURSIVE SumSeq(_)
SumSeq(s) == IF s = <<>> THEN 0 ELSE Head(s) + SumSeq(Tail(s))

RECURSIVE MaxSeq(_)
\* fold(0.0, f64::max)
MaxSeq(s) == IF s = <<>> THEN 0 ELSE Max2(Head(s), MaxSeq(Tail(s)))

(***************************************************************************)
(* Parser data (parser.rs): nodes and values.                               *)
(***************************************************************************)
NoName == "<none>"
NoStage == "<none>"
NoValue == "<absent>"

\* the variable names a script of n pipeline stages uses, in line order
VarNames == <<"a", "b", "c", "d", "e">>
Vars(n) == {VarNames[i] : i \in 1..n}
\* a name that is no pipeline variable of the script
OtherVar == "q"

\* format!("{}_{}", script.protocol_name, variable_name): within one protocol
\* the step_id is an injective function of the variable name
StepId(protocol_name, variable_name) == <<protocol_name, variable_name>>

ProtocolName == "p"

\* the configuration object of a pipeline_stage call, reduced to the keys the
\* compiler reads; NoValue when the key is absent.
\*   expert_models: the length of the array; resource_priority: the string;
\*   minimum_confidence: the number, in thousandths
NoConfig == [present |-> FALSE, expert_models |-> -1, resource_priority |-> NoValue,
             minimum_confidence |-> -1]
Config(models, priority, confidence) ==
    [present |-> TRUE, expert_models |-> models, resource_priority |-> priority,
     minimum_confidence |-> confidence]

\* a TurbulanceNode of script.pipeline_calls
Node(type, name, stage, config, deps) ==
    [node_type |-> type, name |-> name, stage |-> stage, config |-> config,
     dependencies |-> deps]

(***************************************************************************)
(* Compiler tables (compiler.rs, new and the two initialize methods).      *)
(***************************************************************************)
stage_mappings ==
    [s \in {"query_processor", "semantic_atdb", "domain_knowledge", "reasoning_optimization",
            "solution_generation", "response_scoring", "response_comparison",
            "threshold_verification"} |->
       CASE s = "query_processor" -> "stage0_query_processor"
         [] s = "semantic_atdb" -> "stage1_semantic_atdb"
         [] s = "domain_knowledge" -> "stage2_domain_knowledge"
         [] s = "reasoning_optimization" -> "stage3_reasoning_optimization"
         [] s = "solution_generation" -> "stage4_solution"
         [] s = "response_scoring" -> "stage5_scoring"
         [] s = "response_comparison" -> "stage6_comparison"
         [] s = "threshold_verification" -> "stage7_verification"]

Req(cpu, mem, gpu, net, dur, sto) ==
    [cpu_cores |-> cpu, memory_gb |-> mem, gpu_units |-> gpu,
     network_bandwidth_mbps |-> net, estimated_duration_seconds |-> dur, storage_gb |-> sto]

\* all values in thousandths
resource_models ==
    [s \in {"stage0_query_processor", "stage1_semantic_atdb", "stage2_domain_knowledge",
            "stage3_reasoning_optimization", "stage4_solution", "stage5_scoring",
            "stage6_comparison", "stage7_verification"} |->
       CASE s = "stage0_query_processor" -> Req(1000, 2000, 0, 10000, 5000, 100)
         [] s = "stage1_semantic_atdb" -> Req(2000, 4000, 0, 20000, 15000, 200)
         [] s = "stage2_domain_knowledge" -> Req(4000, 8000, 1000, 50000, 30000, 500)
         [] s = "stage3_reasoning_optimization" -> Req(3000, 6000, 500, 30000, 25000, 300)
         [] s = "stage4_solution" -> Req(2000, 4000, 0, 25000, 20000, 200)
         [] s = "stage5_scoring" -> Req(1000, 2000, 0, 15000, 10000, 100)
         [] s = "stage6_comparison" -> Req(2000, 4000, 0, 20000, 15000, 200)
         [] s = "stage7_verification" -> Req(1000, 2000, 0, 10000, 8000, 100)]

default_requirements == Req(1000, 2000, 0, 10000, 15000, 100)

(***************************************************************************)
(* compile_protocol, step by step.                                          *)
(***************************************************************************)
\* a faulty variant of adjust_resource_requirements: the factors of the expert
\* models lack their 1.0, e.g. cpu_cores *= (model_count - 1.0) * 0.5
adjust_with_bare_model_factors(requirements, config) ==
    LET n == config.expert_models
        r1 == IF n >= 0
              THEN [requirements EXCEPT
                      !.cpu_cores = (@ * (n - 1)) \div 2,
                      !.memory_gb = (@ * (3 * n - 3)) \div 10,
                      !.estimated_duration_seconds = (@ * (2 * n - 2)) \div 10]
              ELSE requirements
        m == CASE config.resource_priority = "high" -> 15
               [] config.resource_priority = "critical" -> 20
               [] config.resource_priority = "low" -> 7
               [] OTHER -> 10
        r2 == IF config.resource_priority # NoValue
              THEN [r1 EXCEPT !.cpu_cores = (@ * m) \div 10, !.memory_gb = (@ * m) \div 10]
              ELSE r1
        r3 == IF config.minimum_confidence > 900
              THEN [r2 EXCEPT !.estimated_duration_seconds = (@ * 15) \div 10,
                              !.cpu_cores = (@ * 12) \div 10]
              ELSE r2
    IN r3

\* adjust_resource_requirements: the three configuration-driven adjustments
adjust_resource_requirements(requirements, config) ==
    LET n == config.expert_models
        r1 == IF n >= 0
              THEN [requirements EXCEPT
                      \* 1.0 + (n - 1) * 0.5 = (n + 1) / 2
                      !.cpu_cores = (@ * (n + 1)) \div 2,
                      \* 1.0 + (n - 1) * 0.3 = (7 + 3n) / 10
                      !.memory_gb = (@ * (7 + 3 * n)) \div 10,
                      \* 1.0 + (n - 1) * 0.2 = (8 + 2n) / 10
                      !.estimated_duration_seconds = (@ * (8 + 2 * n)) \div 10]
              ELSE requirements
        \* the multiplier, in tenths
        m == CASE config.resource_priority = "high" -> 15
               [] config.resource_priority = "critical" -> 20
               [] config.resource_priority = "low" -> 7
               [] OTHER -> 10
        r2 == IF config.resource_priority # NoValue
              THEN [r1 EXCEPT !.cpu_cores = (@ * m) \div 10, !.memory_gb = (@ * m) \div 10]
              ELSE r1
        r3 == IF config.minimum_confidence > 900
              THEN [r2 EXCEPT !.estimated_duration_seconds = (@ * 15) \div 10,
                              !.cpu_cores = (@ * 12) \div 10]
              ELSE r2
    IN r3

\* the ExecutionStep built from one PipelineStage node
MakeStep(protocol_name, node, line) ==
    LET actual_stage == IF node.stage \in DOMAIN stage_mappings
                        THEN stage_mappings[node.stage] ELSE node.stage
        resource_requirements == IF actual_stage \in DOMAIN resource_models
                                 THEN resource_models[actual_stage]
                                 ELSE default_requirements
        adjusted_requirements == IF node.config.present
                                 THEN adjust_resource_requirements(resource_requirements,
                                                                   node.config)
                                 ELSE resource_requirements
    IN [step_id |-> StepId(protocol_name, node.name),
        stage_name |-> actual_stage,
        variable_name |-> node.name,
        dependencies |-> node.dependencies,
        resource_requirements |-> adjusted_requirements,
        line_number |-> line,
        timeout_seconds |-> resource_requirements.estimated_duration_seconds * 3]

ErrNone == "ok"
ErrMissingName == "ValidationError: Pipeline stage missing variable name"
ErrMissingStage == "ValidationError: Pipeline stage missing stage name"
ErrCircular == "ValidationError: Circular dependency detected"
ErrDeadlock == "ValidationError: Deadlock in dependency graph"

\* a faulty variant of extract_execution_steps: a PipelineStage node without a name
\* or without a string stage is passed over like a node of another type
extract_skipping_incomplete_nodes(script) ==
    LET calls == script.pipeline_calls
        Complete(i) == /\ calls[i].node_type = "PipelineStage"
                       /\ calls[i].name # NoName
                       /\ calls[i].stage # NoStage
        kept == SelectSeq([i \in 1..Len(calls) |-> i], Complete)
    IN [err |-> ErrNone,
        steps |-> [k \in 1..Len(kept) |->
                     MakeStep(script.protocol_name, calls[kept[k]], kept[k])]]

\* extract_execution_steps: one step per PipelineStage node, in order; the first
\* node without a name or without a string stage ends the compilation
extract_execution_steps(script) ==
    LET calls == script.pipeline_calls
        IsStage(i) == calls[i].node_type = "PipelineStage"
        bad == {i \in 1..Len(calls) :
                  IsStage(i) /\ (calls[i].name = NoName \/ calls[i].stage = NoStage)}
        kept == SelectSeq([i \in 1..Len(calls) |-> i], IsStage)
    IN IF bad # {}
       THEN LET i == CHOOSE k \in bad : \A j \in bad : k <= j
            IN [err |-> IF calls[i].name = NoName THEN ErrMissingName ELSE ErrMissingStage,
                steps |-> <<>>]
       ELSE [err |-> ErrNone,
             steps |-> [k \in 1..Len(kept) |->
                          MakeStep(script.protocol_name, calls[kept[k]], kept[k])]]

\* a faulty variant of build_dependency_graph: a name that is in var_to_step resolves
\* as before, any other name is kept as an edge to a step id no step has
build_graph_keeping_unresolved_names(steps) ==
    LET var_to_step == [v \in {steps[i].variable_name : i \in 1..Len(steps)} |->
                          LET i == CHOOSE k \in 1..Len(steps) :
                                     /\ steps[k].variable_name = v
                                     /\ \A j \in (k+1)..Len(steps) : steps[j].variable_name # v
                          IN steps[i].step_id]
        Resolved(step) ==
            [k \in 1..Len(step.dependencies) |->
                IF step.dependencies[k] \in DOMAIN var_to_step
                THEN var_to_step[step.dependencies[k]]
                ELSE StepId(step.step_id[1], step.dependencies[k])]
        LastWith(id) == CHOOSE k \in 1..Len(steps) :
                          /\ steps[k].step_id = id
                          /\ \A j \in (k+1)..Len(steps) : steps[j].step_id # id
    IN [id \in {steps[i].step_id : i \in 1..Len(steps)} |-> Resolved(steps[LastWith(id)])]

\* build_dependency_graph: names resolve through var_to_step, unresolved names are
\* dropped; graph.insert keeps the entry of the last step with a given step_id
build_dependency_graph(steps) ==
    LET var_to_step == [v \in {steps[i].variable_name : i \in 1..Len(steps)} |->
                          LET i == CHOOSE k \in 1..Len(steps) :
                                     /\ steps[k].variable_name = v
                                     /\ \A j \in (k+1)..Len(steps) : steps[j].variable_name # v
                          IN steps[i].step_id]
        Resolved(step) ==
            LET Known(dep) == dep \in DOMAIN var_to_step
                present == SelectSeq(step.dependencies, Known)
            IN [k \in 1..Len(present) |-> var_to_step[present[k]]]
        LastWith(id) == CHOOSE k \in 1..Len(steps) :
                          /\ steps[k].step_id = id
                          /\ \A j \in (k+1)..Len(steps) : steps[j].step_id # id
    IN [id \in {steps[i].step_id : i \in 1..Len(steps)} |-> Resolved(steps[LastWith(id)])]

RECURSIVE calculate_depth_dfs(_, _, _, _)
RECURSIVE DfsDependencies(_, _, _, _, _, _)
\* a faulty variant of calculate_depth_dfs: `visited` is looked at before `path`, so
\* a step met again on the path of the search counts as done
depth_dfs_checking_visited_first(step_id, dependency_graph, visited, path) ==
    IF step_id \in visited THEN [err |-> FALSE, depth |-> 0, visited |-> visited]
    ELSE IF step_id \in path THEN [err |-> TRUE, depth |-> 0, visited |-> visited]
    ELSE LET deps == IF step_id \in DOMAIN dependency_graph
                     THEN dependency_graph[step_id] ELSE <<>>
             r == DfsDependencies(deps, 1, dependency_graph, visited \cup {step_id},
                                  path \cup {step_id}, 0)
         IN IF r.err THEN r
            ELSE [err |-> FALSE, depth |-> r.depth + 1, visited |-> r.visited]

\* calculate_depth_dfs: [err, depth, visited]; path is restored by the caller's copy
calculate_depth_dfs(step_id, dependency_graph, visited, path) ==
    IF step_id \in path THEN [err |-> TRUE, depth |-> 0, visited |-> visited]
    ELSE IF step_id \in visited THEN [err |-> FALSE, depth |-> 0, visited |-> visited]
    ELSE LET deps == IF step_id \in DOMAIN dependency_graph
                     THEN dependency_graph[step_id] ELSE <<>>
             r == DfsDependencies(deps, 1, dependency_graph, visited \cup {step_id},
                                  path \cup {step_id}, 0)
         IN IF r.err THEN r
            ELSE [err |-> FALSE, depth |-> r.depth + 1, visited |-> r.visited]

\* the loop over the dependencies of one step (lines 384-387)
DfsDependencies(deps, i, dependency_graph, visited, path, max_child_depth) ==
    IF i > Len(deps) THEN [err |-> FALSE, depth |-> max_child_depth, visited |-> visited]
    ELSE LET c == calculate_depth_dfs(deps[i], dependency_graph, visited, path)
         IN IF c.err THEN c
            ELSE DfsDependencies(deps, i + 1, dependency_graph, c.visited, path,
                                 Max2(max_child_depth, c.depth))

RECURSIVE DepthOverKeys(_, _, _, _, _)
\* the loop over dependency_graph.keys() (lines 353-358), keys in the order `keys`
DepthOverKeys(keys, i, dependency_graph, visited, max_depth) ==
    IF i > Len(keys) THEN [err |-> FALSE, depth |-> max_depth]
    ELSE IF keys[i] \in visited
         THEN DepthOverKeys(keys, i + 1, dependency_graph, visited, max_depth)
         ELSE LET r == calculate_depth_dfs(keys[i], dependency_graph, visited, {})
              IN IF r.err THEN [err |-> TRUE, depth |-> 0]
                 ELSE DepthOverKeys(keys, i + 1, dependency_graph, r.visited,
                                    Max2(max_depth, r.depth))

\* a faulty variant of calculate_max_dependency_depth: the error of the DFS is lost
max_depth_ignoring_cycles(dependency_graph, keys) ==
    [err |-> FALSE, depth |-> 1]

\* calculate_max_dependency_depth, the keys visited in the order `keys`
calculate_max_dependency_depth(dependency_graph, keys) ==
    DepthOverKeys(keys, 1, dependency_graph, {}, 0)

RECURSIVE SumLens(_, _)
SumLens(ids, dependency_graph) ==
    IF ids = {} THEN 0
    ELSE LET id == CHOOSE x \in ids : TRUE
         IN Len(dependency_graph[id]) + SumLens(ids \ {id}, dependency_graph)

\* a faulty variant of determine_execution_mode: a step counts as independent when
\* its node names no dependency, resolved or not
mode_from_declared_dependencies(steps, dependency_graph, keys) ==
    LET total_steps == Len(steps)
        independent_steps ==
            Cardinality({i \in 1..Len(steps) : steps[i].dependencies = <<>>})
        d == calculate_max_dependency_depth(dependency_graph, keys)
        sum_dependencies == SumLens(DOMAIN dependency_graph, dependency_graph)
    IN IF d.err THEN [err |-> ErrCircular, mode |-> "none"]
       ELSE [err |-> ErrNone,
             mode |-> IF independent_steps = total_steps THEN "Parallel"
                      ELSE IF independent_steps = 0 THEN "Sequential"
                      ELSE IF d.depth <= 3 /\ sum_dependencies < 2 * total_steps
                           THEN "Adaptive"
                      ELSE "Optimized"]

\* determine_execution_mode: [err, mode]
determine_execution_mode(steps, dependency_graph, keys) ==
    LET total_steps == Len(steps)
        independent_steps ==
            Cardinality({i \in 1..Len(steps) :
                           steps[i].step_id \notin DOMAIN dependency_graph
                           \/ dependency_graph[steps[i].step_id] = <<>>})
        d == calculate_max_dependency_depth(dependency_graph, keys)
        \* dependency_graph.values().map(|deps| deps.len()).sum()
        sum_dependencies == SumLens(DOMAIN dependency_graph, dependency_graph)
    IN IF d.err THEN [err |-> ErrCircular, mode |-> "none"]
       ELSE [err |-> ErrNone,
             mode |-> IF independent_steps = total_steps THEN "Parallel"
                      ELSE IF independent_steps = 0 THEN "Sequential"
                      \* avg_dependencies < 2.0, with avg = sum / total_steps
                      ELSE IF d.depth <= 3 /\ sum_dependencies < 2 * total_steps
                           THEN "Adaptive"
                      ELSE "Optimized"]

\* a faulty variant of ReadySteps: a step counts as ready as soon as one of its dependencies completed
ready_when_any_dependency_completed(remaining, dependency_graph, completed) ==
    {id \in remaining :
       \/ id \notin DOMAIN dependency_graph
       \/ dependency_graph[id] = <<>>
       \/ \E k \in 1..Len(dependency_graph[id]) : dependency_graph[id][k] \in completed}

\* a faulty variant of ReadySteps: the filter is followed by take(2), a level holds
\* two of the ready steps at most
ready_steps_two_at_a_time(remaining, dependency_graph, completed) ==
    LET ready == {id \in remaining :
                    \/ id \notin DOMAIN dependency_graph
                    \/ \A k \in 1..Len(dependency_graph[id]) :
                         dependency_graph[id][k] \in completed}
    IN IF Cardinality(ready) <= 2 THEN ready
       ELSE CHOOSE two \in SUBSET ready : Cardinality(two) = 2

\* the ready_steps filter of calculate_execution_plan (lines 403-412)
ReadySteps(remaining, dependency_graph, completed) ==
    {id \in remaining :
       \/ id \notin DOMAIN dependency_graph
       \/ \A k \in 1..Len(dependency_graph[id]) : dependency_graph[id][k] \in completed}

RECURSIVE PlanLevels(_, _, _, _, _)
\* the while loop of calculate_execution_plan; `remaining` is a HashSet, so every
\* order of a level's ready steps is possible: the set of all outcomes
PlanLevels(remaining, completed, dependency_graph, execution_order, parallel_groups) ==
    IF remaining = {}
    THEN {[err |-> ErrNone, execution_order |-> execution_order,
           parallel_groups |-> parallel_groups]}
    ELSE LET ready == ReadySteps(remaining, dependency_graph, completed)
         IN IF ready = {}
            THEN {[err |-> ErrDeadlock, execution_order |-> <<>>, parallel_groups |-> <<>>]}
            ELSE UNION {PlanLevels(remaining \ ready, completed \cup ready, dependency_graph,
                                   execution_order \o ready_steps,
                                   IF Len(ready_steps) > 1
                                   THEN Append(parallel_groups, ready_steps)
                                   ELSE parallel_groups) : ready_steps \in Orders(ready)}

RECURSIVE Flatten(_)
\* the concatenation of a sequence of sequences
Flatten(ss) == IF ss = <<>> THEN <<>> ELSE Head(ss) \o Flatten(Tail(ss))

\* a faulty variant of calculate_execution_plan: the step_ids of a level are pushed
\* to execution_order inside the test of line 425, for levels of more than one only
plan_of_parallel_levels_only(steps, dependency_graph) ==
    {[p EXCEPT !.execution_order = Flatten(p.parallel_groups)] :
       p \in PlanLevels({steps[i].step_id : i \in 1..Len(steps)}, {}, dependency_graph,
                        <<>>, <<>>)}

\* a faulty variant of calculate_execution_plan: the ready steps are popped off the
\* end of ready_steps as they are pushed to execution_order, so the order of a level
\* in execution_order is the reverse of its group
plan_with_levels_pushed_in_reverse(steps, dependency_graph) ==
    LET Reverse(g) == [k \in 1..Len(g) |-> g[Len(g) + 1 - k]]
    IN {[p EXCEPT !.parallel_groups = [k \in 1..Len(@) |-> Reverse(@[k])]] :
          p \in PlanLevels({steps[i].step_id : i \in 1..Len(steps)}, {}, dependency_graph,
                           <<>>, <<>>)}

\* calculate_execution_plan: every (execution_order, parallel_groups) it can return
calculate_execution_plan(steps, dependency_graph) ==
    PlanLevels({steps[i].step_id : i \in 1..Len(steps)}, {}, dependency_graph, <<>>, <<>>)

\* a number num/den; den = 0 stands for NaN (0.0 / 0.0)
Ratio(num, den) == [num |-> num, den |-> den]

\* a faulty variant of calculate_total_resources: the Parallel aggregate is the sum
\* of the requirements of the steps
total_resources_summed_for_parallel(steps, execution_mode) ==
    LET n == Len(steps)
        cpu == [i \in 1..n |-> steps[i].resource_requirements.cpu_cores]
        mem == [i \in 1..n |-> steps[i].resource_requirements.memory_gb]
    IN CASE execution_mode = "Parallel" ->
              [cpu_cores |-> Ratio(SumSeq(cpu), 1), memory_gb |-> Ratio(SumSeq(mem), 1)]
         [] execution_mode = "Sequential" ->
              [cpu_cores |-> Ratio(SumSeq(cpu), n), memory_gb |-> Ratio(SumSeq(mem), n)]
         [] OTHER ->
              [cpu_cores |-> Ratio(n * SumSeq(cpu) + SumSeq(cpu), 2 * n),
               memory_gb |-> Ratio(n * SumSeq(mem) + SumSeq(mem), 2 * n)]

\* calculate_total_resources, the fields the orchestrator reads
calculate_total_resources(steps, execution_mode) ==
    LET n == Len(steps)
        cpu == [i \in 1..n |-> steps[i].resource_requirements.cpu_cores]
        mem == [i \in 1..n |-> steps[i].resource_requirements.memory_gb]
    IN CASE execution_mode = "Parallel" ->
              [cpu_cores |-> Ratio(MaxSeq(cpu), 1), memory_gb |-> Ratio(MaxSeq(mem), 1)]
         [] execution_mode = "Sequential" ->
              [cpu_cores |-> Ratio(SumSeq(cpu), n), memory_gb |-> Ratio(SumSeq(mem), n)]
         [] OTHER ->
              \* (max + sum / n) / 2
              [cpu_cores |-> Ratio(n * MaxSeq(cpu) + SumSeq(cpu), 2 * n),
               memory_gb |-> Ratio(n * MaxSeq(mem) + SumSeq(mem), 2 * n)]

NoProtocol ==
    [protocol_name |-> "", execution_steps |-> <<>>, execution_mode |-> "none",
     total_resource_requirements |-> [cpu_cores |-> Ratio(0, 1), memory_gb |-> Ratio(0, 1)],
     dependency_graph |-> <<>>, execution_order |-> <<>>, parallel_groups |-> <<>>]

Failure(err) == [err |-> err, protocol |-> NoProtocol]

\* compile_protocol: every Result it can return for the script
compile_protocol(script) ==
    LET ex == extract_execution_steps(script)
        execution_steps == ex.steps
        dependency_graph == build_dependency_graph(execution_steps)
        modes == {determine_execution_mode(execution_steps, dependency_graph, keys) :
                    keys \in Orders(DOMAIN dependency_graph)}
        plans == calculate_execution_plan(execution_steps, dependency_graph)
    IN IF ex.err # ErrNone THEN {Failure(ex.err)}
       ELSE UNION {
              IF m.err # ErrNone THEN {Failure(m.err)}
              ELSE {IF plan.err # ErrNone THEN Failure(plan.err)
                    ELSE [err |-> ErrNone,
                          protocol |->
                            [protocol_name |-> script.protocol_name,
                             execution_steps |-> execution_steps,
                             execution_mode |-> m.mode,
                             total_resource_requirements |->
                                calculate_total_resources(execution_steps, m.mode),
                             dependency_graph |-> dependency_graph,
                             execution_order |-> plan.execution_order,
                             parallel_groups |-> plan.parallel_groups]]
                    : plan \in plans}
              : m \in modes}

\* identify_parallelization_opportunities as generate_optimization_hints counts it:
\* the number of groups of more than one step_id with equal dependency lists
parallelization_hits(dependency_graph) ==
    LET ids == DOMAIN dependency_graph
        groups == {{j \in ids : dependency_graph[j] = dependency_graph[i]} : i \in ids}
    IN Cardinality({g \in groups : Cardinality(g) > 1})

(***************************************************************************)
(* parse_script (parser.rs), for the lines that assign a pipeline stage.    *)
(* A line is given by the pattern it matches and the captures of that       *)
(* pattern; a configuration value is a TurbulanceValue.                     *)
(***************************************************************************)
\* strings that are all alphanumeric/underscore and start with a letter
IdentifierStrings == Range(VarNames) \cup {OtherVar}

StringValue(s) == [type |-> "String", text |-> s, len |-> 0]
NumberValue(n) == [type |-> "Number", text |-> "", len |-> n]
ArrayValue(n) == [type |-> "Array", text |-> "", len |-> n]

PipelineLine(var, stage, pairs) ==
    [form |-> "pipeline", var |-> var, stage |-> stage, pairs |-> pairs]

\* what the compiler reads of a parsed configuration object
ConfigOf(pairs) ==
    LET \* HashMap insert: the last pair with a key wins
        Get(k) == LET i == CHOOSE j \in 1..Len(pairs) :
                             /\ pairs[j].key = k
                             /\ \A m \in (j+1)..Len(pairs) : pairs[m].key # k
                  IN pairs[i].value
        Is(k, t) == (\E i \in 1..Len(pairs) : pairs[i].key = k) /\ Get(k).type = t
    IN Config(IF Is("expert_models", "Array") THEN Get("expert_models").len ELSE -1,
              IF Is("resource_priority", "String") THEN Get("resource_priority").text
              ELSE NoValue,
              IF Is("minimum_confidence", "Number") THEN Get("minimum_confidence").len
              ELSE -1)

\* a panic of the parser thread (a str slice whose start is past its end)
Panicked == [panic |-> "slice index starts at 1 but ends at 0"]

Quotes == {"\"", "'"}
Digits == {"0", "1", "2", "3", "4", "5", "6", "7", "8", "9"}

\* parse_value (lines 514-598) on a value string given as its characters, for
\* strings without white space, brackets or braces: a string that starts and ends
\* with the same quote character is sliced [1..len-1], which panics when the string
\* is one quote character; then true, false, a number, or the string itself
parse_value(value_str) ==
    LET trimmed == value_str
        len == Len(trimmed)
    IN IF len > 0 /\ trimmed[1] \in Quotes /\ trimmed[len] = trimmed[1]
       THEN IF 1 > len - 1 THEN Panicked
            ELSE [type |-> "String", text |-> SubSeq(trimmed, 2, len - 1), len |-> 0]
       ELSE IF trimmed \in {<<"t", "r", "u", "e">>, <<"f", "a", "l", "s", "e">>}
       THEN [type |-> "Boolean", text |-> trimmed, len |-> 0]
       ELSE IF len > 0 /\ \A i \in 1..len : trimmed[i] \in Digits
       THEN [type |-> "Number", text |-> trimmed, len |-> 0]
       ELSE [type |-> "String", text |-> trimmed, len |-> 0]

\* parse_line (lines 271-434): the node of the first pattern the line matches, the
\* line being given by that pattern (line.form) and its captures. Pipeline-stage
\* branch (lines 318-340): the node has name, stage and, when the braces hold text,
\* config; its dependencies are Vec::new(). Variable branch (lines 404-422): the
\* value goes through parse_value. No branch returns Err for these lines.
parse_line(line) ==
    CASE line.form = "pipeline" ->
           Node("PipelineStage", line.var, line.stage,
                IF line.pairs # <<>> THEN ConfigOf(line.pairs) ELSE NoConfig,
                <<>>)
      [] line.form = "comment" -> Node("Comment", NoName, NoStage, NoConfig, <<>>)
      [] line.form = "proposition" -> Node("Proposition", line.var, NoStage, NoConfig, <<>>)
      [] line.form = "hypothesis" -> Node("Hypothesis", NoName, NoStage, NoConfig, <<>>)
      [] line.form = "function" -> Node("Function", line.var, NoStage, NoConfig, <<>>)
      [] line.form = "conditional" -> Node("Conditional", NoName, NoStage, NoConfig, <<>>)
      [] line.form = "data_source" -> Node("DataSource", line.var, NoStage, NoConfig, <<>>)
      [] line.form = "variable" ->
           IF parse_value(line.value) = Panicked THEN Panicked
           ELSE Node("Variable", line.var, NoStage, NoConfig, <<>>)
      [] OTHER -> Node("Expression", NoName, NoStage, NoConfig, <<>>)

\* update_parent_context (lines 251-269): the entries whose indentation is not below
\* the current one are popped from both stacks; the parent is the top that is left
NoParent == -1
RECURSIVE update_parent_context(_, _, _)
update_parent_context(context_stack, indentation_stack, current_indentation) ==
    IF indentation_stack # <<>>
         /\ current_indentation <= indentation_stack[Len(indentation_stack)]
    THEN update_parent_context(
             IF context_stack = <<>> THEN <<>>
             ELSE SubSeq(context_stack, 1, Len(context_stack) - 1),
             SubSeq(indentation_stack, 1, Len(indentation_stack) - 1),
             current_indentation)
    ELSE [context_stack |-> context_stack,
          indentation_stack |-> indentation_stack,
          current_parent |-> IF context_stack = <<>> THEN NoParent
                             ELSE context_stack[Len(context_stack)]]

\* extract_dependencies: the identifier-like string values of the config object
extract_dependencies(line) ==
    LET IsRef(pair) == pair.value.type = "String" /\ pair.value.text \in IdentifierStrings
        refs == SelectSeq(line.pairs, IsRef)
    IN [i \in 1..Len(refs) |-> refs[i].value.text]

\* parse_script: pipeline_calls gets a clone of each node as parse_line made it; the
\* extracted dependencies go to script.dependencies, keyed by variable name
parse_script(lines, protocol_name) ==
    [protocol_name |-> protocol_name,
     pipeline_calls |-> [i \in 1..Len(lines) |-> parse_line(lines[i])],
     dependencies |-> [v \in {lines[i].var : i \in 1..Len(lines)} |->
                         LET i == CHOOSE k \in 1..Len(lines) :
                                    /\ lines[k].var = v
                                    /\ \A j \in (k+1)..Len(lines) : lines[j].var # v
                         IN extract_dependencies(lines[i])]]

\* a script handed to compile_protocol directly (deserialized), not by parse_script
DirectScript(nodes) ==
    [protocol_name |-> ProtocolName, pipeline_calls |-> nodes, dependencies |-> <<>>]

EmptyScript == DirectScript(<<>>)

(***************************************************************************)
(* The inputs: scripts and script texts.                                    *)
(***************************************************************************)
\* the names of S in the order of VarNames, OtherVar last
NamesIn(S) ==
    LET In(v) == v \in S IN SelectSeq(VarNames \o <<OtherVar>>, In)

\* n pipeline stages named a, b, ... in line order, stage i depending on deps[i];
\* kind "unresolved": every stage also names OtherVar; kind "dup": the last stage
\* assigns to the variable of the first
DepScript(n, deps, kind) ==
    DirectScript([i \in 1..n |->
        Node("PipelineStage",
             IF kind = "dup" /\ i = n /\ n > 1 THEN VarNames[1] ELSE VarNames[i],
             "query_processor", NoConfig,
             NamesIn(deps[i] \cup (IF kind = "unresolved" THEN {OtherVar} ELSE {})))])

\* the scripts DepScript makes with up to MaxSteps stages: every dependency relation
\* (cyclic ones too) for kind "plain", the relations in which a stage names earlier
\* stages only for the other kinds
IsDepScript(sc) ==
    \E n \in 0..MaxSteps :
      \E deps \in [1..n -> SUBSET Vars(n)], kind \in {"plain", "unresolved", "dup"} :
        /\ kind = "plain" \/ \A i \in 1..n : deps[i] \subseteq Vars(i - 1)
        /\ sc = DepScript(n, deps, kind)

\* n independent stages, the i-th of them lacking its name, lacking a string stage,
\* or being no PipelineStage node at all
MalformedScript(n, i, defect) ==
    DirectScript([k \in 1..n |->
        Node(IF k = i /\ defect = "type" THEN "Variable" ELSE "PipelineStage",
             IF k = i /\ defect = "name" THEN NoName ELSE VarNames[k],
             IF k = i /\ defect = "stage" THEN NoStage ELSE "query_processor",
             NoConfig, <<>>)])

IsMalformedScript(sc) ==
    \E n \in 1..MaxSteps :
      \E i \in 1..n, defect \in {"name", "stage", "type"} : sc = MalformedScript(n, i, defect)

\* n lines  v = pipeline_stage("stage1_semantic_atdb", {...})  whose braces are empty
\* or hold  "input": "<name>", the name being that of the line before (of the second
\* line, in the first line) or OtherVar
RefText(n, ref) ==
    [i \in 1..n |->
       PipelineLine(VarNames[i], "stage1_semantic_atdb",
                    IF ref[i] = NoValue THEN <<>>
                    ELSE <<[key |-> "input", value |-> StringValue(ref[i])]>>)]

IsText(t) ==
    \E n \in 1..MaxLines :
      \E ref \in [1..n -> Vars(n) \cup {OtherVar, NoValue}] :
        /\ \A i \in 1..n :
             ref[i] \in {NoValue, OtherVar, VarNames[IF i = 1 THEN 2 ELSE i - 1]}
        /\ t = RefText(n, ref)

NoText == <<>>

\* a line of a script text for the loop of parse_script: the number of white-space
\* characters it starts with, the first pattern of parse_line it matches, the name
\* it captures and, for a variable assignment, the characters of the value
Line(indent, form, value) ==
    [indent |-> indent, form |-> form,
     var |-> IF form \in {"proposition", "function", "data_source", "variable", "pipeline"}
             THEN "x" ELSE NoName,
     stage |-> IF form = "pipeline" THEN "query_processor" ELSE NoStage,
     pairs |-> <<>>, value |-> value]

Indentations == {0, 2, 4}
Headers == {"proposition", "function", "conditional"}

\* the values of the variable lines:  "a"   "   a   1
ValueStrings == {<<"\"", "a", "\"">>, <<"\"">>, <<"a">>, <<"1">>}

\* the lines of all forms, a blank line having no indentation left after trim
AllLines ==
    {Line(0, "blank", <<>>)}
      \cup {Line(i, f, <<>>) : i \in Indentations,
                               f \in Headers \cup {"comment", "hypothesis", "data_source",
                                                    "pipeline", "expression"}}
      \cup {Line(i, "variable", v) : i \in Indentations, v \in ValueStrings}

\* headers and expressions
NestingLines == {Line(i, f, <<>>) : i \in Indentations, f \in Headers \cup {"expression"}}

\* the texts of up to MaxLines lines of all forms and the texts of MaxLines + 1 and
\* MaxLines + 2 lines that nest
IsContent(t) ==
    \/ \E n \in 0..MaxLines : t \in [1..n -> AllLines]
    \/ \E n \in (MaxLines + 1)..(MaxLines + 2) : t \in [1..n -> NestingLines]

(***************************************************************************)
(* Orchestrator (orchestrator.rs): resource pool and execute_step.          *)
(***************************************************************************)
Resources == {"cpu", "memory", "gpu", "network", "storage"}

\* TurbulanceOrchestrator::new: the permits of the five semaphores
capacity ==
    [r \in Resources |->
       CASE r = "cpu" -> 16
         [] r = "memory" -> 32
         [] r = "gpu" -> 4
         [] r = "network" -> 1000
         [] r = "storage" -> 100]

\* `as u32` of a non-negative f64 kept in thousandths: truncation
AsU32(x) == x \div 1000

\* the resources execute_step acquires, in the order it acquires them
Chain == <<"cpu", "memory", "gpu">>

\* the permits execute_step requests of a resource; the GPU semaphore is asked only
\* when gpu_units > 0.0, which is the same as a request of 0 permits
Requested(step, r) ==
    CASE r = "cpu" -> AsU32(step.resource_requirements.cpu_cores)
      [] r = "memory" -> AsU32(step.resource_requirements.memory_gb)
      [] r = "gpu" -> IF step.resource_requirements.gpu_units > 0
                      THEN AsU32(step.resource_requirements.gpu_units) ELSE 0
      [] OTHER -> 0

\* a semaphore: the free permits and the FIFO queue of waiters; a waiter keeps the
\* permits assigned to it so far and the number it still needs
Semaphore(n) == [permits |-> n, waiters |-> <<>>]

ResourcePool == [r \in Resources |-> Semaphore(capacity[r])]

\* Semaphore::acquire_many(n) by task i: ready at once when n permits are free;
\* otherwise the task takes the free permits and queues for the rest. It never
\* returns Err (the semaphores are never closed).
acquire_many(sem, i, n) ==
    IF n <= sem.permits
    THEN [ready |-> TRUE, sem |-> [sem EXCEPT !.permits = @ - n]]
    ELSE [ready |-> FALSE,
          sem |-> [permits |-> 0,
                   waiters |-> Append(sem.waiters,
                                      [task |-> i, needed |-> n - sem.permits,
                                       assigned |-> sem.permits])]]

RECURSIVE add_permits(_, _, _)
\* dropping a permit of n: the permits go to the waiters from the head of the queue,
\* what is left when the queue is empty becomes free; woken: the tasks whose request
\* is now complete
add_permits(sem, n, woken) ==
    IF sem.waiters = <<>>
    THEN [sem |-> [sem EXCEPT !.permits = @ + n], woken |-> woken]
    ELSE LET w == Head(sem.waiters)
         IN IF w.needed <= n
            THEN add_permits([sem EXCEPT !.waiters = Tail(@)], n - w.needed,
                             woken \cup {w.task})
            ELSE [sem |-> [sem EXCEPT !.waiters =
                              <<[w EXCEPT !.needed = @ - n, !.assigned = @ + n]>> \o Tail(@)],
                  woken |-> woken]

NoPermits == [r \in Range(Chain) |-> 0]

NoReturn == [kind |-> "none"]

\* the future of one execute_step call:
\*   state    "created"  not polled yet
\*            "waiting"  suspended in the acquire_many of Chain[next]
\*            "woken"    that acquire_many is complete, the future was not polled since
\*            "acquired" past line 406, the stage executor is about to run
\*            "done"     returned
\*   held     the permits it holds, returned what execute_step returned
NewTask(step_id) ==
    [step_id |-> step_id, state |-> "created", next |-> 1, held |-> NoPermits,
     returned |-> NoReturn]

RECURSIVE AcquireFrom(_, _, _, _, _)
\* execute_step lines 396-406 from the k-th acquisition on, for task i: the task
\* state, the permits held and the pool when the future suspends or passes line 406
AcquireFrom(step, i, k, pool, held) ==
    IF k > Len(Chain)
    THEN [state |-> "acquired", next |-> k, held |-> held, pool |-> pool]
    ELSE LET r == Chain[k]
             a == acquire_many(pool[r], i, Requested(step, r))
         IN IF a.ready
            THEN AcquireFrom(step, i, k + 1, [pool EXCEPT ![r] = a.sem],
                             [held EXCEPT ![r] = Requested(step, r)])
            ELSE [state |-> "waiting", next |-> k, held |-> held,
                  pool |-> [pool EXCEPT ![r] = a.sem]]

\* the stages execute_stage knows
KnownStages ==
    {"stage0_query_processor", "stage1_semantic_atdb", "stage2_domain_knowledge",
     "stage3_reasoning_optimization", "stage4_solution", "stage5_scoring",
     "stage6_comparison", "stage7_verification"}

ErrUnknownStage == "ComputationalError: Unknown stage"

\* execute_stage: the eight executors return Ok, any other name is an error
execute_stage(stage_name) ==
    IF stage_name \in KnownStages THEN [kind |-> "Ok"]
    ELSE [kind |-> "Err", error |-> ErrUnknownStage]

\* what execute_step returns once the stage was executed (lines 409-434): the error
\* of execute_stage as it is (the ? of line 409), else a Completed StepResult
StepReturn(step, stage_result) ==
    IF stage_result.kind = "Err" THEN stage_result
    ELSE [kind |-> "Ok",
          value |-> [step_id |-> step.step_id, status |-> "Completed",
                     error_message |-> NoValue]]

\* the pool after a Drop of the permits `held`, and the tasks that woke up
DropPermits(pool, held) ==
    LET after == [r \in Resources |->
                    IF r \in Range(Chain) THEN add_permits(pool[r], held[r], {})
                    ELSE [sem |-> pool[r], woken |-> {}]]
    IN [pool |-> [r \in Resources |-> after[r].sem],
        woken |-> UNION {after[r].woken : r \in Resources}]

\* a faulty variant of release_on_exit: the permits are given back by hand after a successful stage only
release_on_success_only(pool, held, stage_result) ==
    IF stage_result.kind = "Ok" THEN DropPermits(pool, held)
    ELSE [pool |-> pool, woken |-> {}]

\* a faulty variant of release_on_exit: the permits are forgotten
\* (SemaphorePermit::forget), the semaphores never get them back
permits_forgotten_on_exit(pool, held, stage_result) == [pool |-> pool, woken |-> {}]

\* _cpu_permit, _memory_permit and _gpu_permit go out of scope on every return of
\* execute_step, the ? of line 409 included
release_on_exit(pool, held, stage_result) == DropPermits(pool, held)

\* the step of the protocol with the given step_id (the find of lines 266 and 327)
FindStep(protocol, step_id) ==
    LET steps == protocol.execution_steps
    IN steps[CHOOSE i \in 1..Len(steps) :
               steps[i].step_id = step_id /\ \A j \in 1..(i-1) : steps[j].step_id # step_id]

\* compute_execution_statistics, the two counters
compute_execution_statistics(step_results) ==
    [steps_completed |->
        Cardinality({i \in 1..Len(step_results) : step_results[i].status = "Completed"}),
     steps_failed |->
        Cardinality({i \in 1..Len(step_results) : step_results[i].status = "Failed"})]

\* the part of its estimated duration a step took by the wall clock
\* (execution_time / estimated_duration_seconds, line 416): a step that returns at
\* once, and one that takes its whole estimate
ElapsedRatios == {0, 1}

\* result.total_resource_usage of a pass (lines 273-274 and 342-343): the sum over
\* the step results of requirement * elapsed / estimated (lines 416-417)
total_resource_usage(protocol, step_results, elapsed) ==
    LET req(i) == FindStep(protocol, step_results[i].step_id).resource_requirements
    IN [cpu_cores_used |->
           SumSeq([i \in 1..Len(step_results) |-> req(i).cpu_cores * elapsed[i]]),
        memory_gb_used |->
           SumSeq([i \in 1..Len(step_results) |-> req(i).memory_gb * elapsed[i]])]

\* used / total > 0.8 (lines 363-366) for used >= 0 and the total num / den:
\* 0.0 / 0.0 is NaN and compares false, a positive number / 0.0 is infinite
utilization_exceeds(used, total) == used * total.den * 10 > 8 * total.num

\* whether execute_adaptive re-executes after a first pass with this usage
resources_constrained(protocol, usage) ==
    \/ utilization_exceeds(usage.cpu_cores_used, protocol.total_resource_requirements.cpu_cores)
    \/ utilization_exceeds(usage.memory_gb_used, protocol.total_resource_requirements.memory_gb)

NoRun == [kind |-> "none"]

\* a faulty variant of overall_status_of: any() in the place of all()
status_completed_if_any_step_completed(step_results) ==
    IF \E i \in 1..Len(step_results) : step_results[i].status = "Completed"
    THEN "Completed" ELSE "Failed"

\* result.overall_status (execute_protocol lines 203-207)
overall_status_of(step_results) ==
    IF \A i \in 1..Len(step_results) : step_results[i].status = "Completed"
    THEN "Completed" ELSE "Failed"

NoOutcome == [kind |-> "none"]

Modes == {"Sequential", "Parallel", "Adaptive", "Optimized"}

(***************************************************************************)
(* The protocols handed to execute_protocol.                                *)
(***************************************************************************)
\* the node of a stage of the given profile:
\*   "plain"          query_processor, no configuration: 1 core, 2 GB
\*   "oversized_cpu"  domain_knowledge with four expert models and critical
\*                    priority: 4 * 2.5 * 2 = 20 cores
\*   "unknown_stage"  a stage name neither stage_mappings nor execute_stage knows
\*   "large"          domain_knowledge with three expert models and high
\*                    priority: 4 * 2 * 1.5 = 12 cores, 8 * 1.6 * 1.5 = 19.2 GB
\*   "fractional"     domain_knowledge with six expert models and a minimum
\*                    confidence of 0.95: 4 * 3.5 * 1.2 = 16.8 cores
ProfileNode(name, profile, deps) ==
    CASE profile = "oversized_cpu" ->
           Node("PipelineStage", name, "domain_knowledge", Config(4, "critical", -1), deps)
      [] profile = "unknown_stage" ->
           Node("PipelineStage", name, "bogus", NoConfig, deps)
      [] profile = "large" ->
           Node("PipelineStage", name, "domain_knowledge", Config(3, "high", -1), deps)
      [] profile = "fractional" ->
           Node("PipelineStage", name, "domain_knowledge", Config(6, NoValue, 950), deps)
      [] OTHER ->
           Node("PipelineStage", name, "query_processor", NoConfig, deps)

Profiles == {"plain", "oversized_cpu", "unknown_stage"}

\* the dependencies of stage i in a script of the given shape
ShapeDeps(shape, i) ==
    CASE shape = "chain" -> IF i > 1 THEN <<VarNames[i - 1]>> ELSE <<>>
      [] shape = "fan_out" -> IF i > 1 THEN <<VarNames[1]>> ELSE <<>>
      [] shape = "layered" -> IF i > 2 THEN <<VarNames[1]>> ELSE <<>>
      [] OTHER -> <<>>

Shapes == {"independent", "chain", "fan_out"}

ExecScript(n, shape, profile) ==
    DirectScript([i \in 1..n |-> ProfileNode(VarNames[i], profile[i], ShapeDeps(shape, i))])

\* the scripts of up to MaxSteps stages of the three shapes with every profile, and
\* the layered scripts (two independent stages and the stages that depend on the
\* first of them: two levels of more than one step from four stages on) of up to
\* MaxSteps + 1 stages with at most one stage that is not plain, and the scripts of
\* independent stages some of which are large (two of them ask for more CPU cores
\* and memory than the pool has), and the scripts of fewer than MaxSteps independent
\* stages some of which ask for a fractional number of cores
IsExecScript(sc) ==
    \/ \E n \in 1..MaxSteps :
         \E shape \in Shapes, profile \in [1..n -> Profiles] :
           sc = ExecScript(n, shape, profile)
    \/ \E n \in 3..(MaxSteps + 1) :
         \E profile \in [1..n -> Profiles] :
           /\ Cardinality({i \in 1..n : profile[i] # "plain"}) <= 1
           /\ sc = ExecScript(n, "layered", profile)
    \/ \E n \in 2..MaxSteps :
         \E profile \in [1..n -> {"plain", "large"}] :
           sc = ExecScript(n, "independent", profile)
    \/ \E n \in 1..(MaxSteps - 1) :
         \E profile \in [1..n -> {"plain", "fractional"}] :
           sc = ExecScript(n, "independent", profile)

\* a requirement no adjustment of the compiler produces: 4 cores, 40 GB
OversizedMemory == Req(4000, 40000, 0, 10000, 5000, 100)

\* a CompiledProtocol as py_execute_turbulance_protocol deserializes it: the
\* compiled one with the execution_mode the caller wrote and, when heavy > 0, with
\* OversizedMemory as the requirement of step heavy
Deserialized(protocol, mode, heavy) ==
    [protocol EXCEPT
       !.execution_mode = mode,
       !.execution_steps = [i \in 1..Len(@) |->
                              IF i = heavy
                              THEN [@[i] EXCEPT !.resource_requirements = OversizedMemory]
                              ELSE @[i]]]

NoCall == [fn |-> "none"]
NotReturned == [kind |-> "none"]

\* the steps extract_execution_steps makes of independent stages without
\* configuration, one per stage name of `stages`
StepsOfStages(stages) ==
    extract_execution_steps(
        DirectScript([i \in 1..Len(stages) |->
                        Node("PipelineStage", VarNames[i], stages[i], NoConfig, <<>>)])).steps

\* the configuration objects of a pipeline_stage call: none, or one with or without
\* an expert_models array of up to MaxModels elements, with or without a
\* resource_priority string, with or without a minimum_confidence number
Configs ==
    {NoConfig} \cup
    {Config(models, priority, confidence) :
       models \in -1..MaxModels,
       priority \in {NoValue, "high", "critical", "low", "normal"},
       confidence \in {-1, 500, 900, 950}}

\* stages whose resource models have 1, 2 and 3 CPU cores
CoreStages == {"query_processor", "semantic_atdb", "reasoning_optimization"}

(***************************************************************************)
(* State.                                                                   *)
(***************************************************************************)
VARIABLES
    \* the caller's input: a script text (NoText when the script was handed over as
    \* a TurbulanceScript) and the script
    text, script, parsed,
    \* the Results of the latest two compile_protocol calls on the script, and the
    \* number of calls made
    results, calls,
    \* TurbulanceCompiler's statistics
    protocols_compiled, total_steps_generated, optimization_hits,
    \* the CompiledProtocol handed to execute_protocol and where it comes from:
    \* "compiled" (as compile_protocol returned it) or "deserialized"
    protocol, origin,
    \* where execute_protocol is:
    \*   "idle" not called, "parallel" / "sequential" at the head of the loop of
    \*   execute_parallel / execute_sequential, "join_all" / "await_step" awaiting the
    \*   step futures, "adaptive" at the check of execute_adaptive, "finalize" past
    \*   the dispatch, "returned"
    pc,
    \* whether execute_parallel was called by execute_adaptive
    adaptive,
    \* the ExecutionResult execute_parallel returned to execute_adaptive (line 359),
    \* NoRun before
    first_run,
    \* the loop index into parallel_groups or execution_order
    index,
    \* the execute_step futures being awaited, and the position join_all is at
    tasks, cursor,
    \* resource_pool
    pool,
    \* result.step_results of the running execute_sequential / execute_parallel
    result,
    \* the step_ids whose execute_step was entered, and those whose execute_step
    \* returned a Completed StepResult, in the running pass
    started, finished,
    \* what execute_protocol returned
    outcome,
    \* the keys of running_protocols, and the statistics of the orchestrator
    running_protocols, protocols_executed, total_steps_executed, successful_protocols,
    \* the arguments of a call of one private function of the compiler on its own
    \* (NoCall when compile_protocol or execute_protocol is what runs), and what the
    \* call returned (NotReturned before it did)
    arguments, returns,
    \* the lines parse_script was called on (script_content.lines()); where the call
    \* is: "idle" not called, "parsing" in the for loop, "returned", "panicked"; the
    \* number of lines the loop is through; script.nodes, each node with its line
    \* number and the line numbers of the nodes pushed to its children; the two
    \* stacks and current_parent
    script_content, parser, line_num, nodes, context_stack, indentation_stack, current_parent

compileVars == <<text, script, parsed, results, calls, protocols_compiled, total_steps_generated,
                 optimization_hits>>

execVars == <<protocol, origin, pc, adaptive, first_run, index, tasks, cursor, pool, result, started,
              finished, outcome, running_protocols, protocols_executed, total_steps_executed,
              successful_protocols>>

callVars == <<arguments, returns>>

parserVars == <<script_content, parser, line_num, nodes, context_stack, indentation_stack,
                current_parent>>

vars == <<compileVars, execVars, callVars, parserVars>>

\* no parse_script call is followed line by line
ParserIdle ==
    /\ script_content = NoText
    /\ parser = "idle"
    /\ line_num = 0
    /\ nodes = <<>>
    /\ context_stack = <<>>
    /\ indentation_stack = <<>>
    /\ current_parent = NoParent

\* TurbulanceOrchestrator::new, no execute_protocol call made
OrchestratorNew ==
    /\ pc = "idle"
    /\ adaptive = FALSE
    /\ first_run = NoRun
    /\ index = 1
    /\ tasks = <<>>
    /\ cursor = 1
    /\ pool = ResourcePool
    /\ result = <<>>
    /\ started = {}
    /\ finished = {}
    /\ outcome = NoOutcome
    /\ running_protocols = {}
    /\ protocols_executed = 0
    /\ total_steps_executed = 0
    /\ successful_protocols = 0

(***************************************************************************)
(* The compiler: parse a text, compile the script.                          *)
(***************************************************************************)
CompilerNew ==
    /\ results = <<>>
    /\ calls = 0
    /\ protocols_compiled = 0
    /\ total_steps_generated = 0
    /\ optimization_hits = 0

InitCompile ==
    /\ arguments = NoCall
    /\ returns = NotReturned
    /\ \/ /\ text = NoText
          /\ parsed = TRUE
          /\ (IsDepScript(script) \/ IsMalformedScript(script))
       \/ /\ IsText(text)
          /\ script = EmptyScript
          /\ parsed = FALSE
    /\ CompilerNew
    /\ protocol = NoProtocol
    /\ origin = "none"
    /\ OrchestratorNew
    /\ ParserIdle

\* TurbulanceParser::parse_script on the text
ParseScript ==
    /\ ~parsed
    /\ script' = parse_script(text, ProtocolName)
    /\ parsed' = TRUE
    /\ UNCHANGED <<text, results, calls, protocols_compiled, total_steps_generated,
                   optimization_hits, execVars, callVars, parserVars>>

\* a faulty variant of CompileProtocol: the statistics are updated as soon as the
\* steps are extracted, before the mode and the plan are computed
CompileProtocolCountingBeforeThePlan ==
    /\ parsed
    /\ calls < MaxCompiles
    /\ calls' = calls + 1
    /\ \E r \in compile_protocol(script) :
          results' = IF results = <<>> THEN <<r>> ELSE <<results[Len(results)], r>>
    /\ LET e == extract_execution_steps(script)
       IN IF e.err = ErrNone
          THEN /\ protocols_compiled' = protocols_compiled + 1
               /\ total_steps_generated' = total_steps_generated + Len(e.steps)
               /\ optimization_hits' =
                     optimization_hits + parallelization_hits(build_dependency_graph(e.steps))
          ELSE UNCHANGED <<protocols_compiled, total_steps_generated, optimization_hits>>
    /\ UNCHANGED <<text, script, parsed, execVars, callVars, parserVars>>

\* TurbulanceCompiler::compile_protocol on the script
CompileProtocol ==
    /\ parsed
    /\ calls < MaxCompiles
    /\ calls' = calls + 1
    /\ \E r \in compile_protocol(script) :
          /\ results' = IF results = <<>> THEN <<r>> ELSE <<results[Len(results)], r>>
          /\ IF r.err = ErrNone
             THEN /\ protocols_compiled' = protocols_compiled + 1
                  /\ total_steps_generated' =
                        total_steps_generated + Len(r.protocol.execution_steps)
                  /\ optimization_hits' =
                        optimization_hits + parallelization_hits(r.protocol.dependency_graph)
             ELSE UNCHANGED <<protocols_compiled, total_steps_generated, optimization_hits>>
    /\ UNCHANGED <<text, script, parsed, execVars, callVars, parserVars>>

NextCompile == ParseScript \/ CompileProtocol

SpecCompile == InitCompile /\ [][NextCompile]_vars

(***************************************************************************)
(* The orchestrator: execute_protocol on one protocol.                      *)
(***************************************************************************)
InitExec ==
    /\ arguments = NoCall
    /\ returns = NotReturned
    /\ text = NoText
    /\ parsed = TRUE
    /\ IsExecScript(script)
    /\ \E r \in compile_protocol(script) :
          /\ r.err = ErrNone
          /\ results = <<r>>
          /\ calls = 1
          /\ protocols_compiled = 1
          /\ total_steps_generated = Len(r.protocol.execution_steps)
          /\ optimization_hits = parallelization_hits(r.protocol.dependency_graph)
          /\ \/ /\ origin = "compiled"
                /\ protocol = r.protocol
             \/ /\ origin = "deserialized"
                /\ \E mode \in Modes, heavy \in 0..Len(r.protocol.execution_steps) :
                      protocol = Deserialized(r.protocol, mode, heavy)
    /\ OrchestratorNew
    /\ ParserIdle

\* the strategy execute_protocol and execute_optimized dispatch to; the strategy
\* select_execution_strategy picks for an Optimized protocol is any of the three
StrategiesOf(execution_mode) ==
    CASE execution_mode = "Sequential" -> {"sequential"}
      [] execution_mode = "Parallel" -> {"parallel"}
      [] execution_mode = "Adaptive" -> {"adaptive"}
      [] OTHER -> {"parallel", "sequential", "adaptive"}

\* execute_protocol lines 144-198: register the protocol, dispatch on the mode
ExecuteProtocol ==
    /\ pc = "idle"
    /\ running_protocols' = running_protocols \cup {protocol.protocol_name}
    /\ \E strategy \in StrategiesOf(protocol.execution_mode) :
          /\ pc' = IF strategy = "sequential" THEN "sequential" ELSE "parallel"
          /\ adaptive' = (strategy = "adaptive")
    /\ index' = 1
    /\ result' = <<>>
    /\ started' = {}
    /\ finished' = {}
    /\ UNCHANGED <<compileVars, callVars, parserVars, protocol, origin, first_run, tasks, cursor, pool, outcome,
                   protocols_executed, total_steps_executed, successful_protocols>>

\* execute_parallel lines 323-333: the futures of the next parallel group
ParallelGroup ==
    /\ pc = "parallel"
    /\ index <= Len(protocol.parallel_groups)
    /\ tasks' = [k \in 1..Len(protocol.parallel_groups[index]) |->
                   NewTask(protocol.parallel_groups[index][k])]
    /\ cursor' = 1
    /\ pc' = "join_all"
    /\ UNCHANGED <<compileVars, callVars, parserVars, protocol, origin, adaptive, first_run, index, pool, result, started,
                   finished, outcome, running_protocols, protocols_executed,
                   total_steps_executed, successful_protocols>>

\* execute_parallel line 352 after the last group: Ok(result), to execute_adaptive
\* or to the end of execute_protocol
ParallelReturn ==
    /\ pc = "parallel"
    /\ index > Len(protocol.parallel_groups)
    /\ pc' = IF adaptive THEN "adaptive" ELSE "finalize"
    /\ UNCHANGED <<compileVars, callVars, parserVars, protocol, origin, adaptive, first_run, index, tasks, cursor, pool,
                   result, started, finished, outcome, running_protocols,
                   protocols_executed, total_steps_executed, successful_protocols>>

Pollable == {i \in 1..Len(tasks) : tasks[i].state \in {"created", "woken"}}

\* join_all polls its pending futures in their order, round after round
NextToPoll ==
    LET later == {i \in Pollable : i >= cursor}
        from == IF later # {} THEN later ELSE Pollable
    IN CHOOSE i \in from : \A j \in from : i <= j

\* execute_step lines 393-406, one poll of the future: it acquires until an
\* acquire_many suspends it or it holds all its permits
PollStep ==
    /\ pc \in {"join_all", "await_step"}
    /\ \A j \in 1..Len(tasks) : tasks[j].state # "acquired"
    /\ Pollable # {}
    /\ LET i == NextToPoll
           step == FindStep(protocol, tasks[i].step_id)
           a == AcquireFrom(step, i, tasks[i].next, pool, tasks[i].held)
       IN /\ tasks' = [tasks EXCEPT ![i] = [@ EXCEPT !.state = a.state, !.next = a.next,
                                                     !.held = a.held]]
          /\ pool' = a.pool
          /\ cursor' = i + 1
          /\ started' = started \cup {tasks[i].step_id}
    /\ UNCHANGED <<compileVars, callVars, parserVars, protocol, origin, pc, adaptive, first_run, index, result, finished,
                   outcome, running_protocols, protocols_executed, total_steps_executed,
                   successful_protocols>>

\* execute_step lines 408-435 in the same poll (no executor suspends): the stage runs,
\* the step returns and its permits are dropped, which completes the requests of
\* waiters at the head of the queues
RunStage ==
    \E i \in 1..Len(tasks) :
      /\ tasks[i].state = "acquired"
      /\ LET step == FindStep(protocol, tasks[i].step_id)
             stage_result == execute_stage(step.stage_name)
             released == release_on_exit(pool, tasks[i].held, stage_result)
             Woken(j) == LET r == Chain[tasks[j].next]
                         IN [tasks[j] EXCEPT
                               !.state = "woken",
                               !.held[r] = Requested(FindStep(protocol, tasks[j].step_id), r),
                               !.next = @ + 1]
         IN /\ tasks' = [j \in 1..Len(tasks) |->
                           IF j = i
                           THEN [tasks[i] EXCEPT !.state = "done", !.held = NoPermits,
                                                 !.returned = StepReturn(step, stage_result)]
                           ELSE IF j \in released.woken THEN Woken(j)
                           ELSE tasks[j]]
            /\ pool' = released.pool
            /\ finished' = IF stage_result.kind = "Ok"
                           THEN finished \cup {tasks[i].step_id} ELSE finished
      /\ UNCHANGED <<compileVars, callVars, parserVars, protocol, origin, pc, adaptive, first_run, index, cursor, result,
                     started, outcome, running_protocols, protocols_executed,
                     total_steps_executed, successful_protocols>>

\* a faulty variant of JoinAll: try_join_all in the place of join_all, the first Err
\* of a step is returned while the futures of its siblings are dropped
JoinAllReturningAtFirstError ==
    /\ pc = "join_all"
    /\ LET errs == {j \in 1..Len(tasks) :
                     tasks[j].state = "done" /\ tasks[j].returned.kind = "Err"}
       IN IF errs # {}
          THEN /\ outcome' = tasks[CHOOSE j \in errs : \A k \in errs : j <= k].returned
               /\ pc' = "returned"
               /\ UNCHANGED <<result, index>>
          ELSE /\ \A j \in 1..Len(tasks) : tasks[j].state = "done"
               /\ result' = result \o [j \in 1..Len(tasks) |-> tasks[j].returned.value]
               /\ index' = index + 1
               /\ pc' = "parallel"
               /\ UNCHANGED outcome
    /\ UNCHANGED <<compileVars, callVars, parserVars, protocol, origin, adaptive, first_run, tasks, cursor, pool, started,
                   finished, running_protocols, protocols_executed, total_steps_executed,
                   successful_protocols>>

\* a faulty variant of JoinAll: the group is left as soon as one of its futures is
\* complete (select_all in the place of join_all), its siblings are dropped
JoinAllLeavingAtFirstCompletion ==
    /\ pc = "join_all"
    /\ \E j \in 1..Len(tasks) : tasks[j].state = "done"
    /\ LET done == {j \in 1..Len(tasks) : tasks[j].state = "done"}
           first == CHOOSE j \in done : \A k \in done : j <= k
       IN IF tasks[first].returned.kind = "Err"
          THEN /\ outcome' = tasks[first].returned
               /\ pc' = "returned"
               /\ UNCHANGED <<result, index>>
          ELSE /\ result' = Append(result, tasks[first].returned.value)
               /\ index' = index + 1
               /\ pc' = "parallel"
               /\ UNCHANGED outcome
    /\ UNCHANGED <<compileVars, callVars, parserVars, protocol, origin, adaptive, first_run, tasks, cursor, pool, started,
                   finished, running_protocols, protocols_executed, total_steps_executed,
                   successful_protocols>>

\* execute_parallel lines 336-349 once join_all is complete: the first Err among the
\* results of the group is returned through execute_parallel, execute_adaptive and
\* execute_protocol; else the StepResults are pushed
JoinAll ==
    /\ pc = "join_all"
    /\ \A j \in 1..Len(tasks) : tasks[j].state = "done"
    /\ LET errs == {j \in 1..Len(tasks) : tasks[j].returned.kind = "Err"}
       IN IF errs # {}
          THEN /\ outcome' = tasks[CHOOSE j \in errs : \A k \in errs : j <= k].returned
               /\ pc' = "returned"
               /\ UNCHANGED <<result, index>>
          ELSE /\ result' = result \o [j \in 1..Len(tasks) |-> tasks[j].returned.value]
               /\ index' = index + 1
               /\ pc' = "parallel"
               /\ UNCHANGED outcome
    /\ UNCHANGED <<compileVars, callVars, parserVars, protocol, origin, adaptive, first_run, tasks, cursor, pool, started,
                   finished, running_protocols, protocols_executed, total_steps_executed,
                   successful_protocols>>

\* a faulty variant of SequentialStep: the loop goes over execution_steps, the order
\* of the script, in the place of execution_order
SequentialStepInDeclarationOrder ==
    /\ pc = "sequential"
    /\ index <= Len(protocol.execution_order)
    /\ tasks' = <<NewTask(protocol.execution_steps[index].step_id)>>
    /\ cursor' = 1
    /\ pc' = "await_step"
    /\ UNCHANGED <<compileVars, callVars, parserVars, protocol, origin, adaptive, first_run, index, pool, result, started,
                   finished, outcome, running_protocols, protocols_executed,
                   total_steps_executed, successful_protocols>>

\* execute_sequential lines 265-270: the future of the next step of execution_order
SequentialStep ==
    /\ pc = "sequential"
    /\ index <= Len(protocol.execution_order)
    /\ tasks' = <<NewTask(protocol.execution_order[index])>>
    /\ cursor' = 1
    /\ pc' = "await_step"
    /\ UNCHANGED <<compileVars, callVars, parserVars, protocol, origin, adaptive, first_run, index, pool, result, started,
                   finished, outcome, running_protocols, protocols_executed,
                   total_steps_executed, successful_protocols>>

\* execute_sequential lines 270-285 once execute_step returned: an Err is returned
\* through execute_protocol (the ? of lines 270 and 187); a StepResult is pushed and
\* a Failed one ends the loop
StepReturned ==
    /\ pc = "await_step"
    /\ tasks[1].state = "done"
    /\ IF tasks[1].returned.kind = "Err"
       THEN /\ outcome' = tasks[1].returned
            /\ pc' = "returned"
            /\ UNCHANGED <<result, index>>
       ELSE /\ result' = Append(result, tasks[1].returned.value)
            /\ index' = index + 1
            /\ pc' = IF tasks[1].returned.value.status = "Failed"
                     THEN "finalize" ELSE "sequential"
            /\ UNCHANGED outcome
    /\ UNCHANGED <<compileVars, callVars, parserVars, protocol, origin, adaptive, first_run, tasks, cursor, pool, started,
                   finished, running_protocols, protocols_executed, total_steps_executed,
                   successful_protocols>>

\* execute_sequential line 287 after the last step: Ok(result)
SequentialReturn ==
    /\ pc = "sequential"
    /\ index > Len(protocol.execution_order)
    /\ pc' = "finalize"
    /\ UNCHANGED <<compileVars, callVars, parserVars, protocol, origin, adaptive, first_run, index, tasks, cursor, pool,
                   result, started, finished, outcome, running_protocols,
                   protocols_executed, total_steps_executed, successful_protocols>>

\* a faulty variant of AdaptiveCheck: the sequential pass appends to the step
\* results of the parallel pass
AdaptiveCheckKeepingFirstResults ==
    /\ pc = "adaptive"
    /\ \E elapsed \in [1..Len(result) -> ElapsedRatios] :
          LET usage == total_resource_usage(protocol, result, elapsed)
          IN /\ first_run' = [kind |-> "Ok", step_results |-> result,
                              total_resource_usage |-> usage]
             /\ IF resources_constrained(protocol, usage)
                THEN /\ pc' = "sequential"
                     /\ index' = 1
                     /\ started' = {}
                     /\ finished' = {}
                     /\ UNCHANGED result
                ELSE /\ pc' = "finalize"
                     /\ UNCHANGED <<index, result, started, finished>>
    /\ UNCHANGED <<compileVars, callVars, parserVars, protocol, origin, adaptive, tasks, cursor, pool, outcome,
                   running_protocols, protocols_executed, total_steps_executed,
                   successful_protocols>>

\* execute_adaptive lines 359-371: the result of the parallel pass, cpu_util and
\* memory_util of it, and either the sequential pass with a new ExecutionResult
\* or Ok(result)
AdaptiveCheck ==
    /\ pc = "adaptive"
    /\ \E elapsed \in [1..Len(result) -> ElapsedRatios] :
          LET usage == total_resource_usage(protocol, result, elapsed)
          IN /\ first_run' = [kind |-> "Ok", step_results |-> result,
                              total_resource_usage |-> usage]
             /\ IF resources_constrained(protocol, usage)
                THEN /\ pc' = "sequential"
                     /\ index' = 1
                     /\ result' = <<>>
                     /\ started' = {}
                     /\ finished' = {}
                ELSE /\ pc' = "finalize"
                     /\ UNCHANGED <<index, result, started, finished>>
    /\ UNCHANGED <<compileVars, callVars, parserVars, protocol, origin, adaptive, tasks, cursor, pool, outcome,
                   running_protocols, protocols_executed, total_steps_executed,
                   successful_protocols>>

\* execute_protocol lines 200-229: status, statistics, registry, Ok(result)
Finalize ==
    /\ pc = "finalize"
    /\ LET overall_status == overall_status_of(result)
       IN /\ outcome' = [kind |-> "Ok",
                         value |-> [protocol_name |-> protocol.protocol_name,
                                    overall_status |-> overall_status,
                                    step_results |-> result,
                                    execution_statistics |->
                                       compute_execution_statistics(result)]]
          /\ successful_protocols' =
               IF overall_status = "Completed" THEN successful_protocols + 1
               ELSE successful_protocols
    /\ protocols_executed' = protocols_executed + 1
    /\ total_steps_executed' = total_steps_executed + Len(result)
    /\ running_protocols' = running_protocols \ {protocol.protocol_name}
    /\ pc' = "returned"
    /\ UNCHANGED <<compileVars, callVars, parserVars, protocol, origin, adaptive, first_run, index, tasks, cursor, pool,
                   result, started, finished>>

NextExec ==
    \/ ExecuteProtocol
    \/ ParallelGroup
    \/ ParallelReturn
    \/ PollStep
    \/ RunStage
    \/ JoinAll
    \/ SequentialStep
    \/ StepReturned
    \/ SequentialReturn
    \/ AdaptiveCheck
    \/ Finalize

SpecExec == InitExec /\ [][NextExec]_vars

(***************************************************************************)
(* The private functions of the compiler, each called on its own.           *)
(***************************************************************************)
\* the arguments the functions are called with
IsCall(a) ==
    \/ \E n \in 1..MaxSteps :
         \E stages \in [1..n -> CoreStages], mode \in Modes :
           a = [fn |-> "calculate_total_resources", steps |-> StepsOfStages(stages),
                execution_mode |-> mode]
    \/ \E n \in 1..(MaxSteps + 1) :
         \E deps \in [1..n -> SUBSET Vars(n)] :
           /\ \A i \in 1..n : deps[i] \subseteq Vars(i - 1)
           /\ LET steps == extract_execution_steps(DepScript(n, deps, "plain")).steps
              IN \/ a = [fn |-> "determine_execution_mode", steps |-> steps,
                         dependency_graph |-> build_dependency_graph(steps)]
                 \/ a = [fn |-> "calculate_max_dependency_depth",
                         dependency_graph |-> build_dependency_graph(steps)]
    \/ \E stage \in DOMAIN stage_mappings \cup {"bogus"}, config \in Configs :
         a = [fn |-> "extract_execution_steps",
              script |-> DirectScript(<<Node("PipelineStage", VarNames[1], stage, config,
                                            <<>>)>>)]

InitCall ==
    /\ IsCall(arguments)
    /\ returns = NotReturned
    /\ text = NoText
    /\ script = EmptyScript
    /\ parsed = TRUE
    /\ CompilerNew
    /\ protocol = NoProtocol
    /\ origin = "none"
    /\ OrchestratorNew
    /\ ParserIdle

\* calculate_total_resources(steps, execution_mode)
CalculateTotalResources ==
    /\ arguments.fn = "calculate_total_resources"
    /\ returns = NotReturned
    /\ returns' = [kind |-> "Ok",
                   value |-> calculate_total_resources(arguments.steps,
                                                       arguments.execution_mode)]
    /\ UNCHANGED <<compileVars, execVars, arguments, parserVars>>

\* extract_execution_steps(script)
ExtractExecutionSteps ==
    /\ arguments.fn = "extract_execution_steps"
    /\ returns = NotReturned
    /\ LET r == extract_execution_steps(arguments.script)
       IN returns' = [kind |-> IF r.err = ErrNone THEN "Ok" ELSE "Err", value |-> r]
    /\ UNCHANGED <<compileVars, execVars, arguments, parserVars>>

\* determine_execution_mode(steps, dependency_graph), the keys of the graph
\* iterated in any order
DetermineExecutionMode ==
    /\ arguments.fn = "determine_execution_mode"
    /\ returns = NotReturned
    /\ \E keys \in Orders(DOMAIN arguments.dependency_graph) :
          LET r == determine_execution_mode(arguments.steps, arguments.dependency_graph, keys)
          IN returns' = [kind |-> IF r.err = ErrNone THEN "Ok" ELSE "Err", value |-> r]
    /\ UNCHANGED <<compileVars, execVars, arguments, parserVars>>

\* calculate_max_dependency_depth(dependency_graph), the keys iterated in any order
CalculateMaxDependencyDepth ==
    /\ arguments.fn = "calculate_max_dependency_depth"
    /\ returns = NotReturned
    /\ \E keys \in Orders(DOMAIN arguments.dependency_graph) :
          LET r == calculate_max_dependency_depth(arguments.dependency_graph, keys)
          IN returns' = [kind |-> IF r.err THEN "Err" ELSE "Ok", value |-> r]
    /\ UNCHANGED <<compileVars, execVars, arguments, parserVars>>

NextCall ==
    \/ CalculateTotalResources
    \/ ExtractExecutionSteps
    \/ DetermineExecutionMode
    \/ CalculateMaxDependencyDepth

SpecCall == InitCall /\ [][NextCall]_vars

(***************************************************************************)
(* The parser: the loop of parse_script, line by line.                      *)
(***************************************************************************)
InitParse ==
    /\ arguments = NoCall
    /\ returns = NotReturned
    /\ text = NoText
    /\ script = EmptyScript
    /\ parsed = FALSE
    /\ CompilerNew
    /\ protocol = NoProtocol
    /\ origin = "none"
    /\ OrchestratorNew
    /\ IsContent(script_content)
    /\ parser = "parsing"
    /\ line_num = 0
    /\ nodes = <<>>
    /\ context_stack = <<>>
    /\ indentation_stack = <<>>
    /\ current_parent = NoParent

\* a node of script.nodes
Parsed(node, line_number) == [node |-> node, line_number |-> line_number, children |-> <<>>]

\* parse_script lines 141-244, one pass of the for loop: blank lines are skipped and
\* comment lines pushed before the stacks are looked at; for any other line the
\* stacks are updated, the node of parse_line is pushed to the children of the parent
\* and to script.nodes, and a Proposition, a Function or an indented Conditional is
\* pushed on the stacks. A panic of parse_line ends the call.
ParseLine ==
    /\ parser = "parsing"
    /\ line_num < Len(script_content)
    /\ line_num' = line_num + 1
    /\ LET line_number == line_num + 1
           line == script_content[line_number]
           indentation == line.indent
           u == update_parent_context(context_stack, indentation_stack, indentation)
           node == parse_line(line)
           header == \/ node.node_type \in {"Proposition", "Function"}
                     \/ node.node_type = "Conditional" /\ indentation > 0
           attached == IF u.current_parent # NoParent /\ u.current_parent < Len(nodes)
                       THEN [nodes EXCEPT ![u.current_parent + 1].children =
                                            Append(@, line_number)]
                       ELSE nodes
       IN IF line.form = "blank"
          THEN UNCHANGED <<parser, nodes, context_stack, indentation_stack, current_parent>>
          ELSE IF line.form = "comment"
          THEN /\ nodes' = Append(nodes, Parsed(parse_line(line), line_number))
               /\ UNCHANGED <<parser, context_stack, indentation_stack, current_parent>>
          ELSE IF node = Panicked
          THEN /\ parser' = "panicked"
               /\ context_stack' = u.context_stack
               /\ indentation_stack' = u.indentation_stack
               /\ current_parent' = u.current_parent
               /\ UNCHANGED nodes
          ELSE /\ nodes' = Append(attached, Parsed(node, line_number))
               /\ context_stack' = IF header THEN Append(u.context_stack, Len(nodes))
                                   ELSE u.context_stack
               /\ indentation_stack' = IF header THEN Append(u.indentation_stack, indentation)
                                       ELSE u.indentation_stack
               /\ current_parent' = IF header THEN Len(nodes) ELSE u.current_parent
               /\ UNCHANGED parser
    /\ UNCHANGED <<compileVars, execVars, callVars, script_content>>

\* parse_script lines 246-247 after the last line: Ok(script)
ParseReturn ==
    /\ parser = "parsing"
    /\ line_num = Len(script_content)
    /\ parser' = "returned"
    /\ UNCHANGED <<compileVars, execVars, callVars, script_content, line_num, nodes,
                   context_stack, indentation_stack, current_parent>>

NextParse == ParseLine \/ ParseReturn

SpecParse == InitParse /\ [][NextParse]_vars

(***************************************************************************)
(* Claims about the compiler.                                               *)
(***************************************************************************)
\* the protocols returned by the compile_protocol calls so far
Compiled == {results[k].protocol : k \in {j \in 1..Len(results) : results[j].err = ErrNone}}

\* the step_ids that id depends on in graph, directly or through other steps
RECURSIVE ReachableIn(_, _, _)
ReachableIn(graph, frontier, seen) ==
    LET next == {d \in DOMAIN graph : \E f \in frontier : d \in Range(graph[f])} \ seen
    IN IF next = {} THEN seen ELSE ReachableIn(graph, next, seen \cup next)

DependsOn(graph, id) == ReachableIn(graph, {id}, {})

HasCycle(graph) == \E id \in DOMAIN graph : id \in DependsOn(graph, id)

\* C1: in every CompiledProtocol that compile_protocol returns, every step_id of
\* dependency_graph and every step_id listed as one of its dependencies are in
\* execution_order, the dependency at an earlier position than the step.
C1_ExecutionOrderIsTopologicalSort ==
    \A p \in Compiled :
      \A id \in DOMAIN p.dependency_graph :
        /\ Pos(p.execution_order, id) > 0
        /\ \A k \in 1..Len(p.dependency_graph[id]) :
             /\ Pos(p.execution_order, p.dependency_graph[id][k]) > 0
             /\ Pos(p.execution_order, p.dependency_graph[id][k]) < Pos(p.execution_order, id)

\* a compiled protocol in which one step has two dependencies, one of which depends
\* on the other
C1_Witness ==
    \E p \in Compiled :
      \E id \in DOMAIN p.dependency_graph :
        /\ Len(p.dependency_graph[id]) = 2
        /\ p.dependency_graph[id][1] \in Range(p.dependency_graph[p.dependency_graph[id][2]])

\* the text  x = pipeline_stage(..., {})  /  y = pipeline_stage(..., {"input": "x"})
ReferencingText ==
    /\ Len(text) = 2
    /\ text[1].pairs = <<>>
    /\ text[2].pairs = <<[key |-> "input", value |-> StringValue(text[1].var)]>>

\* C2: when the second line of a two-line text references the variable of the first,
\* parse_script followed by compile_protocol succeeds with the second step depending on
\* the first, execution_order = [first, second] and no parallel group.
C2_ReferencedStageIsADependency ==
    (ReferencingText /\ parsed) =>
      \A k \in 1..Len(results) :
        LET p == results[k].protocol
            x == StepId(ProtocolName, text[1].var)
            y == StepId(ProtocolName, text[2].var)
        IN /\ results[k].err = ErrNone
           /\ x \in Range(p.dependency_graph[y])
           /\ p.execution_order = <<x, y>>
           /\ p.parallel_groups = <<>>

\* the dependency graph compile_protocol resolves for the script
ResolvedGraph == build_dependency_graph(extract_execution_steps(script).steps)

\* C10: when the resolved dependency graph of the script's pipeline steps has a cycle
\* (a step depending on itself included), compile_protocol returns the cycle error
\* and no CompiledProtocol.
C10_CycleFailsCompilation ==
    (parsed /\ extract_execution_steps(script).err = ErrNone /\ HasCycle(ResolvedGraph)) =>
      \A k \in 1..Len(results) :
        results[k].err = ErrCircular /\ results[k].protocol = NoProtocol

\* compile_protocol was called on a script in which two different steps depend on each
\* other
C10_Witness ==
    /\ results # <<>>
    /\ results[1].err = ErrCircular
    /\ \E x, y \in DOMAIN ResolvedGraph :
         x # y /\ y \in Range(ResolvedGraph[x]) /\ x \in Range(ResolvedGraph[y])

\* C11: two compile_protocol calls on the same script that both succeed return the
\* same execution_order and the same parallel_groups, the order of the step_ids
\* inside each group included.
C11_CompilationIsDeterministic ==
    (Len(results) = 2 /\ results[1].err = ErrNone /\ results[2].err = ErrNone) =>
      /\ results[1].protocol.execution_order = results[2].protocol.execution_order
      /\ results[1].protocol.parallel_groups = results[2].protocol.parallel_groups

\* the script of three stages a, b, c where b depends on a and c depends on b
ChainOfThree ==
    DepScript(3, [i \in 1..3 |-> IF i = 1 THEN {} ELSE {VarNames[i - 1]}], "plain")

\* C12: every compile_protocol call on the chain of three dependent stages succeeds
\* with execution_mode Sequential.
C12_ChainCompilesToSequential ==
    (parsed /\ script = ChainOfThree) =>
      \A k \in 1..Len(results) :
        results[k].err = ErrNone /\ results[k].protocol.execution_mode = "Sequential"

\* C13: when no step of the script has a resolved dependency, every compile_protocol
\* call on it succeeds with execution_mode Parallel.
C13_IndependentStagesCompileToParallel ==
    ( /\ parsed
      /\ extract_execution_steps(script).err = ErrNone
      /\ \A id \in DOMAIN ResolvedGraph : ResolvedGraph[id] = <<>> ) =>
      \A k \in 1..Len(results) :
        results[k].err = ErrNone /\ results[k].protocol.execution_mode = "Parallel"

\* compile_protocol returned a protocol of three steps, none with a resolved
\* dependency, whose nodes each name a variable that is no stage of the script
C13_Witness ==
    /\ results # <<>>
    /\ results[1].err = ErrNone
    /\ Len(results[1].protocol.execution_steps) = 3
    /\ \A id \in DOMAIN ResolvedGraph : ResolvedGraph[id] = <<>>
    /\ \A i \in 1..3 : OtherVar \in Range(script.pipeline_calls[i].dependencies)

\* C14: in every CompiledProtocol that compile_protocol returns, the step_id of each
\* step of execution_steps is at exactly one position of execution_order, and
\* execution_order holds no id that is not the step_id of a step.
C14_EveryStepOnceInExecutionOrder ==
    \A p \in Compiled :
      /\ \A i \in 1..Len(p.execution_steps) :
           Cardinality({k \in 1..Len(p.execution_order) :
                          p.execution_order[k] = p.execution_steps[i].step_id}) = 1
      /\ Range(p.execution_order)
           \subseteq {p.execution_steps[i].step_id : i \in 1..Len(p.execution_steps)}

\* a compiled protocol of three steps with a level of one step and a level of two
C14_Witness ==
    \E p \in Compiled :
      /\ Len(p.execution_steps) = 3
      /\ Len(p.execution_order) = 3
      /\ Len(p.parallel_groups) = 1
      /\ Len(p.parallel_groups[1]) = 2

\* two pipeline-stage nodes of sc assign to the same variable name
DuplicateNames(sc) ==
    \E i, j \in 1..Len(sc.pipeline_calls) :
      /\ i # j
      /\ sc.pipeline_calls[i].name # NoName
      /\ sc.pipeline_calls[i].name = sc.pipeline_calls[j].name

\* C15: compiling a script in which two pipeline-stage nodes assign to the same
\* variable name fails with a compile error; no compiled protocol has two steps
\* with the same step_id.
C15_DuplicateNamesFailCompilation ==
    /\ DuplicateNames(script) => \A k \in 1..Len(results) : results[k].err # ErrNone
    /\ \A p \in Compiled :
         \A i, j \in 1..Len(p.execution_steps) :
           p.execution_steps[i].step_id = p.execution_steps[j].step_id => i = j


\* the pipeline-stage nodes of sc that have no variable name or no string stage
Incomplete(sc) ==
    {i \in 1..Len(sc.pipeline_calls) :
       /\ sc.pipeline_calls[i].node_type = "PipelineStage"
       /\ (sc.pipeline_calls[i].name = NoName \/ sc.pipeline_calls[i].stage = NoStage)}

\* C21: when a pipeline-stage node of script.pipeline_calls has no variable name or
\* no string-valued stage, every compile_protocol call fails with a ValidationError
\* (the one of the first such node) and yields no CompiledProtocol, and the
\* statistics of the compiler do not count it.
C21_IncompleteStageNodeIsValidationError ==
    (parsed /\ Incomplete(script) # {}) =>
      LET first == CHOOSE i \in Incomplete(script) : \A j \in Incomplete(script) : i <= j
      IN /\ \A k \in 1..Len(results) :
              /\ results[k].err = IF script.pipeline_calls[first].name = NoName
                                  THEN ErrMissingName ELSE ErrMissingStage
              /\ results[k].protocol = NoProtocol
         /\ protocols_compiled = 0

\* compile_protocol was called on a script whose second stage node of three has no
\* string stage, the other two being complete
C21_Witness ==
    /\ results # <<>>
    /\ Len(script.pipeline_calls) = 3
    /\ Incomplete(script) = {2}
    /\ script.pipeline_calls[2].stage = NoStage
    /\ results[1].err = ErrMissingStage


\* the cpu_cores of the steps a calculate_total_resources call was given, in
\* thousandths
CoresGiven ==
    [i \in 1..Len(arguments.steps) |-> arguments.steps[i].resource_requirements.cpu_cores]

\* the largest element of a non-empty sequence of numbers
Largest(s) == CHOOSE x \in Range(s) : \A y \in Range(s) : y <= x

IsSubsequence(s, t) ==
    \E at \in [1..Len(s) -> 1..Len(t)] :
      /\ \A i \in 1..Len(s) : t[at[i]] = s[i]
      /\ \A i \in 1..(Len(s) - 1) : at[i] < at[i + 1]

\* g is a contiguous run of t
IsRun(g, t) ==
    \E from \in 0..(Len(t) - Len(g)) : \A k \in 1..Len(g) : t[from + k] = g[k]

\* C23: in every CompiledProtocol each parallel group has more than one member and
\* is a contiguous run of execution_order, and the concatenation of the groups is a
\* subsequence of execution_order in the same relative order.
C23_GroupsAreRunsOfExecutionOrder ==
    \A p \in Compiled :
      /\ \A g \in 1..Len(p.parallel_groups) :
           /\ Len(p.parallel_groups[g]) > 1
           /\ IsRun(p.parallel_groups[g], p.execution_order)
      /\ IsSubsequence(Flatten(p.parallel_groups), p.execution_order)

\* a compiled protocol whose execution_order starts with a step that is in no group
\* and goes on with the two steps of its only group
C23_Witness ==
    \E p \in Compiled :
      /\ Len(p.execution_order) = 3
      /\ Len(p.parallel_groups) = 1
      /\ p.parallel_groups[1] = SubSeq(p.execution_order, 2, 3)


\* C24: every step extract_execution_steps builds for compile_protocol has
\* non-negative cpu_cores, memory_gb, gpu_units, network_bandwidth_mbps, storage_gb
\* and estimated_duration_seconds, whatever the configuration of its node:
\* expert_models of any length from 0 on, any resource_priority, any
\* minimum_confidence.
C24_RequirementsAreNonNegative ==
    (arguments.fn = "extract_execution_steps" /\ returns.kind = "Ok") =>
      \A i \in 1..Len(returns.value.steps) :
        LET r == returns.value.steps[i].resource_requirements
        IN /\ r.cpu_cores >= 0
           /\ r.memory_gb >= 0
           /\ r.gpu_units >= 0
           /\ r.network_bandwidth_mbps >= 0
           /\ r.storage_gb >= 0
           /\ r.estimated_duration_seconds >= 0

\* the step of a node whose configuration has an empty expert_models array, low
\* priority and a minimum_confidence above 0.9 was built
C24_Witness ==
    /\ arguments.fn = "extract_execution_steps"
    /\ returns.kind = "Ok"
    /\ Len(returns.value.steps) = 1
    /\ arguments.script.pipeline_calls[1].config = Config(0, "low", 950)
    /\ returns.value.steps[1].resource_requirements.cpu_cores > 0


RECURSIVE ChainFrom(_, _)
\* the number of steps on the longest dependency chain that starts at step id
ChainFrom(id, graph) ==
    IF graph[id] = <<>> THEN 1
    ELSE 1 + MaxSeq([k \in 1..Len(graph[id]) |-> ChainFrom(graph[id][k], graph)])

\* the length of the longest dependency chain of an acyclic graph
LongestChain(graph) ==
    IF DOMAIN graph = {} THEN 0
    ELSE LET lengths == {ChainFrom(id, graph) : id \in DOMAIN graph}
         IN CHOOSE d \in lengths : \A e \in lengths : e <= d

\* C26: for steps of which at least one but not all are independent,
\* determine_execution_mode returns Adaptive when the longest dependency chain
\* has at most 3 steps and the steps have fewer than 2.0 dependencies on average,
\* and Optimized otherwise; calculate_max_dependency_depth returns the length of
\* the longest chain whatever the order in which the steps are visited.
C26_ModeFollowsLongestChain ==
    /\ (arguments.fn = "determine_execution_mode" /\ returns.kind = "Ok") =>
         LET graph == arguments.dependency_graph
             independent == {id \in DOMAIN graph : graph[id] = <<>>}
         IN (independent # {} /\ independent # DOMAIN graph) =>
              returns.value.mode =
                IF /\ LongestChain(graph) <= 3
                   /\ SumLens(DOMAIN graph, graph) < 2 * Len(arguments.steps)
                THEN "Adaptive" ELSE "Optimized"
    /\ (arguments.fn = "calculate_max_dependency_depth" /\ returns.kind = "Ok") =>
         returns.value.depth = LongestChain(arguments.dependency_graph)


\* C29: in every CompiledProtocol each parallel group is the whole ready set of its
\* level: the steps not in execution_order before the group whose dependencies are
\* all in execution_order before the group; and no member of a group depends on
\* another member of it, directly or through other steps.
C29_GroupsAreWholeReadySets ==
    \A p \in Compiled :
      \A g \in 1..Len(p.parallel_groups) :
        LET group == p.parallel_groups[g]
            scheduled == Range(SubSeq(p.execution_order, 1,
                                      Pos(p.execution_order, group[1]) - 1))
            ids == {p.execution_steps[i].step_id : i \in 1..Len(p.execution_steps)}
        IN /\ Range(group) =
                {id \in ids \ scheduled : Range(p.dependency_graph[id]) \subseteq scheduled}
           /\ \A id \in Range(group) : DependsOn(p.dependency_graph, id) \cap Range(group) = {}

\* a compiled protocol of three steps whose first level is a group of two and whose
\* third step depends on a step of the group
C29_Witness ==
    \E p \in Compiled :
      /\ Len(p.execution_order) = 3
      /\ Len(p.parallel_groups) = 1
      /\ p.parallel_groups[1] = SubSeq(p.execution_order, 1, 2)
      /\ Range(p.dependency_graph[p.execution_order[3]]) \cap Range(p.parallel_groups[1]) # {}


\* C30: compile_protocol never returns the error `Deadlock in dependency graph`:
\* the script of a dependency graph without a cycle compiles, and execution_order
\* of the protocol holds every step_id, so calculate_execution_plan has scheduled
\* the graph completely and has come to its end.
C30_DeadlockErrorIsUnreachable ==
    /\ \A k \in 1..Len(results) : results[k].err # ErrDeadlock
    /\ ( /\ parsed
         /\ extract_execution_steps(script).err = ErrNone
         /\ ~HasCycle(ResolvedGraph) ) =>
         \A k \in 1..Len(results) :
           /\ results[k].err = ErrNone
           /\ Range(results[k].protocol.execution_order) = DOMAIN ResolvedGraph

\* the script of a chain of three stages passed the cycle detection and
\* calculate_execution_plan scheduled its three steps in three levels
C30_Witness ==
    /\ results # <<>>
    /\ Len(script.pipeline_calls) = 3
    /\ ~HasCycle(ResolvedGraph)
    /\ Cardinality({id \in DOMAIN ResolvedGraph : ResolvedGraph[id] # <<>>}) = 2
    /\ results[1].err = ErrNone
    /\ Len(results[1].protocol.execution_order) = 3
    /\ results[1].protocol.parallel_groups = <<>>


\* C31: every step extract_execution_steps builds has timeout_seconds equal to 3
\* times its own resource_requirements.estimated_duration_seconds, also when the
\* configuration (expert_models, minimum_confidence) has scaled that duration.
C31_TimeoutIsThreeTimesEstimatedDuration ==
    (arguments.fn = "extract_execution_steps" /\ returns.kind = "Ok") =>
      \A i \in 1..Len(returns.value.steps) :
        returns.value.steps[i].timeout_seconds
          = 3 * returns.value.steps[i].resource_requirements.estimated_duration_seconds


\* the dependency names of the script's pipeline stages that no pipeline stage of the
\* script assigns
DanglingNames(sc) ==
    LET stages == {i \in 1..Len(sc.pipeline_calls) :
                     sc.pipeline_calls[i].node_type = "PipelineStage"}
    IN UNION {Range(sc.pipeline_calls[i].dependencies) : i \in stages}
         \ {sc.pipeline_calls[i].name : i \in stages}

\* C32: in every compiled protocol each step id listed as a dependency in
\* dependency_graph is a key of dependency_graph; a dependency name that resolves to
\* no pipeline variable is dropped and causes no error: a script that extracts and
\* whose resolved graph has no cycle compiles, with the graph of the resolved names.
C32_DependenciesAreKeysOfTheGraph ==
    /\ \A p \in Compiled :
         \A id \in DOMAIN p.dependency_graph :
           Range(p.dependency_graph[id]) \subseteq DOMAIN p.dependency_graph
    /\ (parsed /\ DanglingNames(script) # {}
          /\ extract_execution_steps(script).err = ErrNone /\ ~HasCycle(ResolvedGraph)) =>
         \A k \in 1..Len(results) :
           /\ results[k].err = ErrNone
           /\ \A i \in 1..Len(results[k].protocol.execution_steps) :
                LET step == results[k].protocol.execution_steps[i]
                IN Range(results[k].protocol.dependency_graph[step.step_id])
                     = {StepId(script.protocol_name, d) :
                          d \in Range(step.dependencies) \ DanglingNames(script)}

\* a script of two stages was compiled whose second stage names the first and a
\* variable no stage assigns: its graph keeps the first only
C32_Witness ==
    /\ results # <<>>
    /\ results[1].err = ErrNone
    /\ Len(script.pipeline_calls) = 2
    /\ OtherVar \in Range(script.pipeline_calls[2].dependencies)
    /\ \E id \in DOMAIN results[1].protocol.dependency_graph :
         results[1].protocol.dependency_graph[id]
           = <<StepId(script.protocol_name, script.pipeline_calls[1].name)>>


\* C37: a compile_protocol call that returns an error leaves protocols_compiled,
\* total_steps_generated and optimization_hits as they were; a call that succeeds
\* adds 1 to protocols_compiled and the number of steps to total_steps_generated;
\* protocols_compiled is the number of calls that succeeded.
C37_FailedCompileLeavesStatisticsUnchanged ==
    [][calls' = calls + 1 =>
         LET r == results'[Len(results')]
         IN /\ r.err # ErrNone =>
                 UNCHANGED <<protocols_compiled, total_steps_generated, optimization_hits>>
            /\ r.err = ErrNone =>
                 /\ protocols_compiled' = protocols_compiled + 1
                 /\ total_steps_generated'
                      = total_steps_generated + Len(r.protocol.execution_steps)
                 /\ optimization_hits' >= optimization_hits
            /\ Len(results') = calls' =>
                 protocols_compiled'
                   = Cardinality({k \in 1..Len(results') : results'[k].err = ErrNone})]_vars

\* compile_protocol was called twice on a script of two steps that depend on each
\* other: both calls failed on the cycle and the statistics are those of new()
C37_Witness ==
    /\ calls = 2
    /\ \A k \in 1..2 : results[k].err = ErrCircular
    /\ Len(extract_execution_steps(script).steps) = 2
    /\ protocols_compiled = 0
    /\ total_steps_generated = 0
    /\ optimization_hits = 0

(***************************************************************************)
(* Claims about the orchestrator.                                           *)
(***************************************************************************)
Steps == protocol.execution_steps

\* the steps that ask for more permits of a resource than the pool has
Oversized == {i \in 1..Len(Steps) : \E r \in Range(Chain) : Requested(Steps[i], r) > capacity[r]}

\* the steps whose stage executor fails
Failing == {i \in 1..Len(Steps) : execute_stage(Steps[i].stage_name).kind = "Err"}

\* C3: while execute_parallel runs a protocol that compile_protocol returned (on its
\* own or as the first pass of execute_adaptive), every step whose execute_step was
\* entered has all its dependencies of dependency_graph completed.
C3_NoStepStartsBeforeItsDependencies ==
    (origin = "compiled" /\ pc \in {"parallel", "join_all"}) =>
      \A id \in started : Range(protocol.dependency_graph[id]) \subseteq finished

\* C4: when execute_protocol has returned for a compiled Parallel protocol whose
\* steps have no dependencies, fit the pool and have executors that succeed, it
\* returned Ok with steps_completed equal to the number of steps.
C4_IndependentStepsAllComplete ==
    ( /\ origin = "compiled"
      /\ protocol.execution_mode = "Parallel"
      /\ \A id \in DOMAIN protocol.dependency_graph : protocol.dependency_graph[id] = <<>>
      /\ Failing = {}
      /\ Oversized = {}
      /\ pc = "returned" ) =>
      /\ outcome.kind = "Ok"
      /\ outcome.value.execution_statistics.steps_completed = Len(Steps)

\* the position in execution_order of the first step whose executor fails
FirstFailing ==
    CHOOSE k \in 1..Len(protocol.execution_order) :
      /\ FindStep(protocol, protocol.execution_order[k]).stage_name \notin KnownStages
      /\ \A j \in 1..(k-1) :
           FindStep(protocol, protocol.execution_order[j]).stage_name \in KnownStages

\* C5: when execute_protocol has returned for a Sequential protocol in which the
\* executor of the k-th step of execution_order is the first to fail, it returned
\* Ok with steps_completed = k-1 and steps_failed = 1, and no step after the k-th
\* was entered.
C5_SequentialStopsAtFailedStep ==
    (protocol.execution_mode = "Sequential" /\ Failing # {} /\ pc = "returned") =>
      /\ outcome.kind = "Ok"
      /\ outcome.value.execution_statistics.steps_completed = FirstFailing - 1
      /\ outcome.value.execution_statistics.steps_failed = 1
      /\ \A j \in (FirstFailing + 1)..Len(protocol.execution_order) :
           protocol.execution_order[j] \notin started

\* C6: an execute_step whose stage executor failed returns Ok with a StepResult of
\* status Failed that carries an error_message.
C6_FailedExecutorYieldsFailedStepResult ==
    \A i \in 1..Len(tasks) :
      ( /\ tasks[i].state = "done"
        /\ FindStep(protocol, tasks[i].step_id).stage_name \notin KnownStages ) =>
        /\ tasks[i].returned.kind = "Ok"
        /\ tasks[i].returned.value.status = "Failed"
        /\ tasks[i].returned.value.error_message # NoValue

\* the permits of resource r that are not free: held by a step or assigned to a waiter
PermitsOut(r) ==
    IF r \in Range(Chain)
    THEN SumSeq([i \in 1..Len(tasks) |-> tasks[i].held[r]])
         + SumSeq([k \in 1..Len(pool[r].waiters) |-> pool[r].waiters[k].assigned])
    ELSE 0

\* C7: a step about to run its stage executor holds the permits it requested; a step
\* that returned holds none; free permits plus permits out always equal the capacity
\* (so the permits out never exceed it); and once execute_protocol has returned, with
\* a result or an error, every semaphore has all its permits and no waiter.
C7_PermitsAcquiredAndReleased ==
    /\ \A i \in 1..Len(tasks) :
         /\ tasks[i].state = "acquired" =>
              \A r \in Range(Chain) :
                tasks[i].held[r] = Requested(FindStep(protocol, tasks[i].step_id), r)
         /\ tasks[i].state = "done" => tasks[i].held = NoPermits
    /\ \A r \in Resources :
         /\ pool[r].permits >= 0
         /\ PermitsOut(r) <= capacity[r]
         /\ pool[r].permits + PermitsOut(r) = capacity[r]
    /\ pc = "returned" => pool = ResourcePool

\* execute_protocol returned the error of a stage executor, and the step of that
\* executor had acquired permits
C7_Witness ==
    /\ pc = "returned"
    /\ outcome.kind = "Err"
    /\ \E i \in 1..Len(tasks) :
         /\ tasks[i].returned.kind = "Err"
         /\ Requested(FindStep(protocol, tasks[i].step_id), "cpu") > 0
         /\ Requested(FindStep(protocol, tasks[i].step_id), "memory") > 0

\* C8: no step that is suspended in an acquire_many holds permits of another
\* resource.
C8_AcquisitionIsAllOrNothing ==
    \A i \in 1..Len(tasks) : tasks[i].state = "waiting" => tasks[i].held = NoPermits

\* C9: the execution of a compiled protocol with a step that asks for more permits
\* than the pool has never comes to a halt before execute_protocol has returned.
C9_OversizedStepDoesNotBlock ==
    (origin = "compiled" /\ Oversized # {}) => (pc = "returned" \/ ENABLED NextExec)


\* C16: after execute_protocol returns, with a result or with an error, the
\* protocol is no longer in the running_protocols registry.
C16_RegistryEmptyAfterReturn ==
    pc = "returned" => protocol.protocol_name \notin running_protocols


\* the step_ids of a sequence of StepResults
StepIds(step_results) == [i \in 1..Len(step_results) |-> step_results[i].step_id]

\* C17: when execute_protocol has returned an ExecutionResult for an Adaptive
\* protocol, a first pass was made with the Parallel strategy (its StepResults are
\* those of the parallel groups, group after group); if the CPU or memory
\* utilization of that pass exceeded 80% of total_resource_requirements, the
\* returned step_results are those of a whole Sequential pass (the steps of
\* execution_order, each step_id once), else they are the StepResults of the
\* first pass.
C17_AdaptiveRerunSupersedesFirstRun ==
    (pc = "returned" /\ protocol.execution_mode = "Adaptive" /\ outcome.kind = "Ok") =>
      /\ first_run.kind = "Ok"
      /\ StepIds(first_run.step_results) = Flatten(protocol.parallel_groups)
      /\ IF resources_constrained(protocol, first_run.total_resource_usage)
         THEN /\ StepIds(outcome.value.step_results) = protocol.execution_order
              /\ \A i, j \in 1..Len(outcome.value.step_results) :
                   outcome.value.step_results[i].step_id
                     = outcome.value.step_results[j].step_id => i = j
         ELSE outcome.value.step_results = first_run.step_results

\* an Adaptive protocol of three steps has returned after a first pass over a
\* group of two whose utilization exceeded the threshold and a whole second pass
C17_Witness ==
    /\ pc = "returned"
    /\ protocol.execution_mode = "Adaptive"
    /\ outcome.kind = "Ok"
    /\ first_run.kind = "Ok"
    /\ Len(first_run.step_results) = 2
    /\ resources_constrained(protocol, first_run.total_resource_usage)
    /\ Len(outcome.value.step_results) = 3


\* C18: when execute_protocol has returned the error of a step of a parallel group
\* of a Parallel protocol, every step of that group has run to its end (a sibling
\* whose stage executor succeeds has returned a Completed StepResult), and
\* execute_step was entered for no step of a later group.
C18_SiblingsCompleteLaterGroupsNotStarted ==
    (protocol.execution_mode = "Parallel" /\ pc = "returned" /\ outcome.kind = "Err") =>
      /\ \A j \in 1..Len(tasks) :
           /\ tasks[j].state = "done"
           /\ tasks[j].step_id \in started
           /\ FindStep(protocol, tasks[j].step_id).stage_name \in KnownStages =>
                /\ tasks[j].returned.kind = "Ok"
                /\ tasks[j].returned.value.status = "Completed"
      /\ \A g \in (index + 1)..Len(protocol.parallel_groups) :
           Range(protocol.parallel_groups[g]) \cap started = {}

\* the first step of the first of two groups failed, its sibling completed after
\* it, and execute_protocol has returned the error
C18_Witness ==
    /\ protocol.execution_mode = "Parallel"
    /\ pc = "returned"
    /\ outcome.kind = "Err"
    /\ index = 1
    /\ Len(protocol.parallel_groups) = 2
    /\ Len(tasks) = 2
    /\ tasks[1].returned.kind = "Err"
    /\ tasks[2].returned.kind = "Ok"


\* the first k elements of a sequence
Prefix(s, k) == SubSeq(s, 1, k)

\* the execute_step futures that were entered and have not returned
Running == {j \in 1..Len(tasks) : tasks[j].state \in {"waiting", "woken", "acquired"}}

\* C19: while execute_protocol runs a Sequential protocol, and when it has returned,
\* at most one step is running, the step_ids of the StepResults so far are the
\* first step_ids of execution_order in that order, and the steps entered so far
\* are those and at most the next step of execution_order.
C19_SequentialFollowsExecutionOrder ==
    (protocol.execution_mode = "Sequential" /\ pc # "idle") =>
      /\ Cardinality(Running) <= 1
      /\ Len(result) <= Len(protocol.execution_order)
      /\ StepIds(result) = Prefix(protocol.execution_order, Len(result))
      /\ \/ started = Range(StepIds(result))
         \/ /\ Len(result) < Len(protocol.execution_order)
            /\ started = Range(Prefix(protocol.execution_order, Len(result) + 1))
      /\ outcome.kind = "Ok" => outcome.value.step_results = result

\* the second step of a Sequential protocol whose execution_order is not the order
\* of the script is about to run its stage, the first has returned its StepResult
C19_Witness ==
    /\ protocol.execution_mode = "Sequential"
    /\ pc = "await_step"
    /\ index = 2
    /\ Len(result) = 1
    /\ tasks[1].state = "acquired"
    /\ protocol.execution_order # StepIds(protocol.execution_steps)


\* step results of up to two steps with the statuses an ExecutionResult can carry,
\* among them the ones execute_step never builds
StatusSamples ==
    LET S == {"Completed", "Failed", "Running"}
    IN {<<>>} \cup {<<[status |-> s]>> : s \in S}
              \cup {<<[status |-> s], [status |-> t]>> : s, t \in S}

\* C20: the ExecutionResult execute_protocol returns has overall_status Completed
\* if and only if every StepResult of its step_results has status Completed, and
\* Failed otherwise; the rule of execute_protocol gives the same for step results
\* of every status.
C20_OverallStatusCompletedIffAllCompleted ==
    /\ (pc = "returned" /\ outcome.kind = "Ok") =>
         LET r == outcome.value
             all_completed == \A i \in 1..Len(r.step_results) :
                                 r.step_results[i].status = "Completed"
         IN /\ r.overall_status = "Completed" <=> all_completed
            /\ ~all_completed => r.overall_status = "Failed"
    /\ \A sr \in StatusSamples :
         LET all_completed == \A i \in 1..Len(sr) : sr[i].status = "Completed"
         IN overall_status_of(sr) = IF all_completed THEN "Completed" ELSE "Failed"

\* execute_protocol has returned an ExecutionResult with overall_status Completed
\* and the Completed StepResults of more than one step
C20_Witness ==
    /\ pc = "returned"
    /\ outcome.kind = "Ok"
    /\ Len(outcome.value.step_results) >= 2
    /\ \A i \in 1..Len(outcome.value.step_results) :
         outcome.value.step_results[i].status = "Completed"
    /\ outcome.value.overall_status = "Completed"


\* C25: whatever the strategy, when every stage executor succeeds the ExecutionResult
\* that execute_protocol returns for a protocol of compile_protocol holds exactly
\* one StepResult for every step of execution_steps, steps that are alone in their
\* dependency level included.
C25_EveryStepHasOneStepResult ==
    (origin = "compiled" /\ Failing = {} /\ pc = "returned" /\ outcome.kind = "Ok") =>
      \A i \in 1..Len(Steps) :
        Cardinality({k \in 1..Len(outcome.value.step_results) :
                       outcome.value.step_results[k].step_id = Steps[i].step_id}) = 1


\* the permits a step's requirement comes to on each of the five dimensions
Demand(step, r) ==
    CASE r = "cpu" -> AsU32(step.resource_requirements.cpu_cores)
      [] r = "memory" -> AsU32(step.resource_requirements.memory_gb)
      [] r = "gpu" -> AsU32(step.resource_requirements.gpu_units)
      [] r = "network" -> AsU32(step.resource_requirements.network_bandwidth_mbps)
      [] r = "storage" -> AsU32(step.resource_requirements.storage_gb)

\* C27: a step that runs its stage executor holds permits of each of the five
\* semaphores in proportion to its requirement: on every dimension, network and
\* storage included, the free permits are the capacity less the demand of the
\* running steps, so that demand never exceeds the capacity.
C27_RunningStepsHoldPermitsOfAllFive ==
    \A r \in Resources :
      LET running == {j \in 1..Len(tasks) : tasks[j].state = "acquired"}
          demand == SumSeq([j \in 1..Len(tasks) |->
                              IF j \in running
                              THEN Demand(FindStep(protocol, tasks[j].step_id), r) ELSE 0])
      IN running # {} =>
           /\ demand <= capacity[r]
           /\ pool[r].permits <= capacity[r] - demand


\* execute_protocol on the protocols all of whose steps fit the pool and have
\* stage executors that succeed
InitExecFitting == InitExec /\ Oversized = {} /\ Failing = {}

\* the runtime keeps polling the future of execute_protocol while it can make a step
SpecExecFair == InitExecFitting /\ [][NextExec]_vars /\ WF_vars(NextExec)

\* C28: when the demand of every step fits the pool on each dimension (and every
\* stage executor returns, as all of them do), the steps launched together in a
\* parallel group all acquire their permits and return, also when the demand of
\* the group as a whole exceeds the capacity: the group never deadlocks on the pool.
C28_GroupNeverDeadlocksOnThePool ==
    (pc = "join_all" /\ Oversized = {}) ~> (\A j \in 1..Len(tasks) : tasks[j].state = "done")

\* the CPU cores and the memory the steps of the group in flight ask for exceed the
\* pool, each step fits it, and all of them have returned
C28_Witness ==
    /\ pc = "join_all"
    /\ Oversized = {}
    /\ Len(tasks) >= 2
    /\ SumSeq([j \in 1..Len(tasks) |->
                 Requested(FindStep(protocol, tasks[j].step_id), "cpu")]) > capacity["cpu"]
    /\ SumSeq([j \in 1..Len(tasks) |->
                 Requested(FindStep(protocol, tasks[j].step_id), "memory")])
         > capacity["memory"]
    /\ \A j \in 1..Len(tasks) : tasks[j].state = "done" /\ tasks[j].returned.kind = "Ok"


\* the steps of the parallel groups before group g
StepsBeforeGroup(g) ==
    UNION {Range(protocol.parallel_groups[h]) : h \in 1..(g - 1)}

\* C33: execute_parallel takes the groups in their listed order as barriers: while a
\* group is joined the futures of all its members exist, one per member in the order
\* of the group, and are driven by one join_all; no step of a later group has started;
\* every step of every earlier group has finished.
C33_ParallelGroupsAreBarriers ==
    /\ pc = "join_all" =>
         /\ index \in 1..Len(protocol.parallel_groups)
         /\ [j \in 1..Len(tasks) |-> tasks[j].step_id] = protocol.parallel_groups[index]
    /\ pc \in {"parallel", "join_all"} =>
         \A g \in 1..Len(protocol.parallel_groups) :
           (Range(protocol.parallel_groups[g]) \cap started # {}) =>
             /\ g <= index
             /\ StepsBeforeGroup(g) \subseteq finished

\* the second of two groups is joined and one of its two steps has started, after the
\* two steps of the first group
C33_Witness ==
    /\ pc = "join_all"
    /\ index = 2
    /\ Len(protocol.parallel_groups[1]) = 2
    /\ Len(tasks) = 2
    /\ tasks[1].step_id \in started
    /\ tasks[2].step_id \notin started
    /\ Range(protocol.parallel_groups[1]) \subseteq finished


\* the requirement of a step on a pooled resource, in thousandths
Required(step, r) ==
    CASE r = "cpu" -> step.resource_requirements.cpu_cores
      [] r = "memory" -> step.resource_requirements.memory_gb
      [] r = "gpu" -> step.resource_requirements.gpu_units

NonBlankLines ==
    LET NonBlank(n) == script_content[n].form # "blank"
    IN SelectSeq([n \in 1..Len(script_content) |-> n], NonBlank)

\* C35: parse_script fails on no text: the call returns, with exactly one node in
\* script.nodes for every non-blank line, in line order, and with an Expression node
\* for a line that matches none of the patterns.
C35_ParseScriptReturnsOneNodePerLine ==
    /\ parser # "panicked"
    /\ parser = "returned" =>
         /\ [k \in 1..Len(nodes) |-> nodes[k].line_number] = NonBlankLines
         /\ \A k \in 1..Len(nodes) :
              script_content[nodes[k].line_number].form = "expression"
                => nodes[k].node.node_type = "Expression"

\* the lines the loop takes the indentation of: neither blank nor comment
Indented(n) == script_content[n].form \notin {"blank", "comment"}

\* header line h is open at line n: a header above n with a strictly lower
\* indentation than n, no line between them having dedented to the header or below
OpenHeader(h, n) ==
    /\ h < n
    /\ script_content[h].form \in Headers
    /\ script_content[h].indent < script_content[n].indent
    /\ \A m \in (h + 1)..(n - 1) :
         Indented(m) => script_content[m].indent > script_content[h].indent

\* the line numbers of the nodes that hold line n among their children
ParentsOf(n) ==
    {nodes[k].line_number : k \in {j \in 1..Len(nodes) : n \in Range(nodes[j].children)}}

\* whatever the text, the two stacks of parse_script have the same length and the
\* indentation stack is strictly increasing
StacksAreAligned ==
    /\ Len(indentation_stack) = Len(context_stack)
    /\ \A i \in 1..(Len(indentation_stack) - 1) :
         indentation_stack[i] < indentation_stack[i + 1]

\* C36: while parse_script goes through the lines, every line it made a node of that
\* is no comment is a child of the nearest open header above it (Proposition,
\* Function or Conditional, at any indentation of the header, 0 included) and of no
\* other node, and of no node when no header is open; the indentation stack is
\* strictly increasing from bottom to top and as long as the context stack.
C36_LinesAttachToNearestOpenHeader ==
    /\ StacksAreAligned
    /\ \A k \in 1..Len(nodes) :
         LET n == nodes[k].line_number
             open == {h \in 1..(n - 1) : OpenHeader(h, n)}
         IN Indented(n) =>
              ParentsOf(n) = IF open = {} THEN {}
                             ELSE {CHOOSE h \in open : \A g \in open : g <= h}


=============================================================================
